---- MODULE Spec2Model ----
(***************************************************************************)
(* Resource-management core of the sales-insights backend:                 *)
(*   - DatabricksConnectionPool  (backend/analytics/connection_pool.py)    *)
(*   - ResponseCache             (backend/middleware/cache.py)             *)
(* Pool: the clock `now` counts seconds (every timed wait of the pool is   *)
(* the 1.0 s queue poll); acquire_timeout is a float and is given in half  *)
(* seconds.  Statements take no time; the clock advances only while every  *)
(* thread is blocked (queue poll, lock wait), outside a call, or inside    *)
(* the body of a `with get_connection()`.                                  *)
(* Cache: the clock `now` counts seconds and advances between calls.       *)
(***************************************************************************)
EXTENDS Integers, Sequences, FiniteSets, TLC

----------------------------------------------------------------------------
\* Bounds of the model
NumThreads == 2          \* worker threads calling into the pool
MaxConnections == 2      \* connections the factory opens in one run
MaxTime == 2             \* last clock value of the pool (seconds)
MaxCacheTime == 2        \* last clock value of the cache (seconds)
MinSize == 1             \* PoolConfig.min_size is 0 (no warm-up) or MinSize
MaxSize == 2             \* PoolConfig.max_size is 1 or MaxSize
AcquireTimeout == 1      \* PoolConfig.acquire_timeout (half seconds)
IdleTimeout == 0         \* PoolConfig.idle_timeout (seconds)
ValidationInterval == 1  \* PoolConfig.validation_interval (seconds)

MaxEntries == 2          \* ResponseCache.max_entries
DefaultTtl == 1          \* ResponseCache.default_ttl (seconds)
CleanupInterval == 2     \* ResponseCache.cleanup_interval (seconds)
MaxCalls == 3            \* calls made on the cache in one run

MaxLimit == 2            \* RateLimitConfig: every limit is 1 or MaxLimit
MaxChecks == 4           \* check_limit calls made in one run
MaxTicks == 2            \* times the limiter's clock advances in one run
MaxRequests == 6         \* requests a rate-limited route receives in one run

SchemaTtl == 1           \* cache_ttl of the SchemaDiscovery, in seconds
MaxSchemaTime == 2       \* the schema clock stops here
MaxVersions == 1         \* times the database schema changes
MaxSchemaCalls == 3      \* get_schema_info calls begun

\* Program constants
PollTimeout == 1         \* self._pool.get(timeout=1.0) (seconds)
BurstWindow == 10        \* current_time - 10 (rate_limiter.py line 60)
MinuteWindow == 60       \* current_time - 60 (line 58)
HourWindow == 3600       \* current_time - 3600 (line 59)
LimiterCleanupInterval == 60   \* self._cleanup_interval (line 53)
TooManyRequests == 429   \* return response, 429 (line 213)

Threads == 1..NumThreads
ConnIds == 1..MaxConnections
None == 0                \* Python None for `pooled`; also "lock not held"

----------------------------------------------------------------------------
VARIABLES
    now,              \* time.time()
    \* ---- DatabricksConnectionPool ----
    config,           \* self.config : PoolConfig
    pool,             \* self._pool : Queue[PooledConnection] (idle queue)
    all_connections,  \* self._all_connections : list[PooledConnection]
    lock,             \* self._lock : owner thread, or None
    closed,           \* self._closed
    initialized,      \* self._initialized
    conns,            \* the PooledConnection objects created so far
    pc,               \* position of each thread inside the pool's code
    pooled,           \* local `pooled` of get_connection / _create_connection
    start_time,       \* local `start_time` of get_connection
    poll_start,       \* time at which the running self._pool.get(timeout=1.0) began
    init_i,           \* loop index of the warm-up loop in _ensure_initialized
    ret,              \* caller of the running _create_connection / _close_connection
    \* ---- observations of the run (not program state) ----
    call_closed,      \* close() had already been called when the thread's get_connection call began
    exhausted,        \* the pool was exhausted when the thread's acquire loop began, and nothing was released since
    \* ---- ResponseCache ----
    cache,            \* self._cache : dict key -> CacheEntry, in insertion order
    stats,            \* self._stats : CacheStats
    last_cleanup,     \* self._last_cleanup
    \* ---- observations of the run (not program state) ----
    calls,            \* number of calls made on the cache
    last_call,        \* the cache call that has just completed, and what it returned
    stored,           \* per key: what the last set stored and until when it lives, unless
                      \* invalidate or a capacity eviction removed the key since
    \* ---- threads inside ResponseCache ----
    cache_pc,         \* position of each thread inside get, set or invalidate
    cache_key,        \* local `key`
    cache_entry,      \* local `entry` of get
    cache_new,        \* value and ttl a set call was given
    cache_failed,     \* observation: some call raised out of the cache
    \* ---- SchemaDiscovery ----
    schema_cache,     \* self._cache
    cache_ttl,        \* self._cache_ttl
    db_version,       \* the schema the database has now
    sd_pc,            \* position of each thread inside get_schema_info
    connector_instance, \* the process's connector, the `connector` of every call
    sd_text,          \* local `schema_info`
    schema_calls,     \* number of get_schema_info calls begun
    schema_force,     \* observation: force_refresh of the latest call begun
    schema_result,    \* observation: how the latest call to finish ended
    last_discovery,   \* observation: what the latest successful discovery stored
    \* ---- RateLimiter ----
    limits,           \* self.config : RateLimitConfig
    user_data,        \* self.user_data : defaultdict key -> UserRateData
    limiter_cleanup,  \* self._last_cleanup of the rate limiter
    \* ---- observations of the run (not program state) ----
    checks,           \* number of check_limit calls made
    ticks,            \* number of times the limiter's clock was advanced
    last_result,      \* per key: what the identity's latest check_limit call returned, and when
    allowed_log,      \* per key: the timestamps of all allowed calls, oldest first
    anonymous_log,    \* the timestamps of the allowed calls made with user_id None
    \* ---- threads inside RateLimiter.check_limit ----
    lim_pc,           \* position of each thread inside check_limit
    lim_key,          \* local `key`
    lim_time,         \* local `current_time`
    lim_list,         \* the list a comprehension of _cleanup_old_requests has built
    \* ---- a route wrapped by rate_limit ----
    rt_pc,            \* position of each request thread inside decorated_function
    rt_user,          \* local `user_id`
    rt_info,          \* local `info`
    response,         \* the response decorated_function returned last
    \* ---- observations of the run (not program state) ----
    route_requests,   \* number of requests the route has received
    handler_calls     \* number of times the wrapped handler f was invoked

poolVars == <<config, pool, all_connections, lock, closed, initialized, conns,
              pc, pooled, start_time, poll_start, init_i, ret,
              call_closed, exhausted>>

cacheVars == <<cache, stats, last_cleanup, calls, last_call, stored>>

limiterVars == <<limits, user_data, limiter_cleanup, checks, ticks, last_result,
                 allowed_log, anonymous_log>>

limiterThreadVars == <<lim_pc, lim_key, lim_time, lim_list>>

cacheThreadVars == <<cache_pc, cache_key, cache_entry, cache_new, cache_failed>>

schemaVars == <<schema_cache, cache_ttl, db_version, connector_instance, sd_pc,
                sd_text, schema_calls, schema_force, schema_result, last_discovery>>

routeVars == <<rt_pc, rt_user, rt_info, response, route_requests, handler_calls>>

\* Everything but the pool, but the cache, but the limiter, but the schema
exceptPool == <<cacheVars, cacheThreadVars, limiterVars, limiterThreadVars,
                schemaVars, routeVars>>
exceptCache == <<poolVars, limiterVars, limiterThreadVars, schemaVars, routeVars>>
exceptLimiter == <<poolVars, cacheVars, cacheThreadVars, schemaVars, routeVars>>
exceptSchema == <<poolVars, cacheVars, cacheThreadVars, limiterVars,
                  limiterThreadVars, routeVars>>
\* Everything but the limiter and the route
exceptRoute == <<poolVars, cacheVars, cacheThreadVars, schemaVars>>

vars == <<now, poolVars, cacheVars, cacheThreadVars, limiterVars,
          limiterThreadVars, schemaVars, routeVars>>

----------------------------------------------------------------------------
\* PooledConnection: `state` is the underlying connection ("unborn" before
\* the factory returned it, then "open", then "closed").  created_at is
\* written but never read by the pool, and is left out; last_used_at is not
\* read by the pool either.
PooledConnection(created_at) ==
    [state |-> "open", in_use |-> FALSE, last_validated_at |-> created_at,
     last_used_at |-> created_at]

Unborn == [state |-> "unborn", in_use |-> FALSE, last_validated_at |-> 0,
           last_used_at |-> 0]

\* A closed PooledConnection that nothing refers to any more (garbage)
Dropped == [state |-> "closed", in_use |-> FALSE, last_validated_at |-> 0,
            last_used_at |-> 0]

\* A pool of one connection without warm-up, or a pool of up to MaxSize
\* connections with warm-up (a warm-up whose factory calls all fail leaves
\* the pool as one without warm-up)
PoolConfig == {[min_size |-> 0, max_size |-> 1,
                acquire_timeout |-> AcquireTimeout,
                idle_timeout |-> IdleTimeout,
                validation_interval |-> ValidationInterval],
               [min_size |-> MinSize, max_size |-> MaxSize,
                acquire_timeout |-> AcquireTimeout,
                idle_timeout |-> IdleTimeout,
                validation_interval |-> ValidationInterval]}

\* Elements of a sequence
Range(s) == {s[i] : i \in 1..Len(s)}

\* list.remove(x): drops the first occurrence of x
RECURSIVE ListRemove(_, _)
ListRemove(s, x) ==
    IF s = <<>> THEN <<>>
    ELSE IF Head(s) = x THEN Tail(s)
    ELSE <<Head(s)>> \o ListRemove(Tail(s), x)

\* The next connection the factory can return (None when the run's budget is spent)
NextConn ==
    IF \E c \in ConnIds : conns[c].state = "unborn"
    THEN CHOOSE c \in ConnIds : conns[c].state = "unborn"
                                /\ \A d \in ConnIds : conns[d].state = "unborn" => c <= d
    ELSE None

\* get_stats()
get_stats ==
    LET total == Len(all_connections)
        in_use == Cardinality({i \in 1..Len(all_connections) : conns[all_connections[i]].in_use})
    IN [total_connections |-> total, in_use |-> in_use,
        available |-> total - in_use, max_size |-> config.max_size,
        initialized |-> initialized]

\* All max_size connections exist, are checked out, and none is idle
PoolExhausted ==
    /\ Len(all_connections) >= config.max_size
    /\ \A i \in 1..Len(all_connections) : conns[all_connections[i]].in_use
    /\ pool = <<>>

----------------------------------------------------------------------------
\* ResponseCache (backend/middleware/cache.py)

NoAgent == "None"        \* agent_type=None
NoQuestion == <<"None">> \* question=None (not a string)
NoKwargs == {}           \* no further keyword arguments; else a set of <<name, value>>

\* The key parts callers pass; questions are strings, modelled as sequences
\* of characters
KeyParts ==
    { [question |-> <<"Q">>,      user_id |-> 7,    agent_type |-> "sql", kwargs |-> NoKwargs],
      [question |-> <<" ", "q">>, user_id |-> 7,    agent_type |-> "sql", kwargs |-> NoKwargs],
      [question |-> <<"r", " ">>, user_id |-> 7,    agent_type |-> "sql", kwargs |-> NoKwargs],
      [question |-> <<"Q">>,      user_id |-> None, agent_type |-> "sql", kwargs |-> NoKwargs] }

\* What invalidate is called with: the same, no key parts at all, or a
\* user_id alone
InvalidateParts ==
    KeyParts \cup
    { [question |-> NoQuestion, user_id |-> None, agent_type |-> NoAgent, kwargs |-> NoKwargs],
      [question |-> NoQuestion, user_id |-> 7,    agent_type |-> NoAgent, kwargs |-> NoKwargs] }
Values == 1..MaxCalls      \* responses; every set call stores a fresh one
NoTtl == -1              \* ttl=None
Ttls == {NoTtl, 0, 1}
Miss == "None"           \* the None returned by get on a miss

\* str.lower() on one character
LowerChar(ch) == IF ch = "Q" THEN "q" ELSE IF ch = "R" THEN "r" ELSE ch

\* str.lower()
lower(str) == [i \in 1..Len(str) |-> LowerChar(str[i])]

\* str.strip(): drops leading and trailing whitespace
RECURSIVE lstrip(_)
lstrip(str) ==
    IF str # <<>> /\ Head(str) = " " THEN lstrip(Tail(str)) ELSE str

RECURSIVE rstrip(_)
rstrip(str) ==
    IF str # <<>> /\ str[Len(str)] = " "
    THEN rstrip(SubSeq(str, 1, Len(str) - 1)) ELSE str

strip(str) == rstrip(lstrip(str))

\* Mutation of generate_key: the key does not depend on user_id
generate_key_any_user(question, user_id, agent_type, kwargs) ==
    [question |-> strip(lower(question)), user_id |-> None,
     agent_type |-> agent_type, kwargs |-> kwargs]

\* _generate_key (lines 90-109): the digest of the JSON text of the key
\* parts, sorted by name, with the question lower-cased and stripped;
\* distinct key parts are taken to have distinct digests
generate_key(question, user_id, agent_type, kwargs) ==
    [question |-> strip(lower(question)), user_id |-> user_id,
     agent_type |-> agent_type, kwargs |-> kwargs]

Keys == {generate_key(IF p.question = NoQuestion THEN <<>> ELSE p.question,
                      p.user_id, p.agent_type, p.kwargs) : p \in InvalidateParts}

\* CacheEntry
CacheEntry(key, value, created_at, ttl) ==
    [key |-> key, value |-> value, created_at |-> created_at, ttl |-> ttl,
     hits |-> 0]

\* Mutation of is_expired: an entry lives one second longer than its ttl
is_expired_late(entry, t) == t > (entry.created_at + entry.ttl + 1)

\* CacheEntry.is_expired at time t
is_expired(entry, t) == t > (entry.created_at + entry.ttl)

\* Position of key in the dict (keys are unique), 0 when absent
IndexOf(d, key) ==
    IF \E i \in 1..Len(d) : d[i].key = key
    THEN CHOOSE i \in 1..Len(d) : d[i].key = key
    ELSE 0

\* Mutation of DelAt: the entries before position i go as well
DelUpTo(d, i) == SubSeq(d, i + 1, Len(d))

\* del d[i]
DelAt(d, i) == SubSeq(d, 1, i - 1) \o SubSeq(d, i + 1, Len(d))

\* d[key] = entry: an existing key keeps its position
DictSet(d, entry) ==
    LET i == IndexOf(d, entry.key)
    IN IF i = 0 THEN Append(d, entry) ELSE [d EXCEPT ![i] = entry]

\* Mutation of OldestIndex: max instead of min, the newest entry is chosen
NewestIndex(d) ==
    CHOOSE i \in 1..Len(d) :
        \A j \in 1..Len(d) :
            \/ d[i].created_at > d[j].created_at
            \/ d[i].created_at = d[j].created_at /\ i <= j

\* min(self._cache.keys(), key=created_at): the first entry, in iteration
\* order, among those with the smallest created_at
OldestIndex(d) ==
    CHOOSE i \in 1..Len(d) :
        \A j \in 1..Len(d) :
            \/ d[i].created_at < d[j].created_at
            \/ d[i].created_at = d[j].created_at /\ i <= j

\* Mutation of effective_ttl: `ttl or default_ttl`, so ttl=0 means default
effective_ttl_falsy(ttl) == IF ttl # NoTtl /\ ttl # 0 THEN ttl ELSE DefaultTtl

\* Line 210: ttl if ttl is not None else self.default_ttl
effective_ttl(ttl) == IF ttl # NoTtl THEN ttl ELSE DefaultTtl

\* The cache object: its dict, its statistics and the time of the last sweep
CacheState == [cache |-> cache, stats |-> stats, last_cleanup |-> last_cleanup]

\* _cleanup_expired (lines 111-127)
cleanup_expired(c) ==
    IF (now - c.last_cleanup) < CleanupInterval
    THEN c
    ELSE LET Fresh(e) == ~is_expired(e, now)
             kept == SelectSeq(c.cache, Fresh)
         IN [cache |-> kept,
             stats |-> [c.stats EXCEPT
                          !.evictions = @ + (Len(c.cache) - Len(kept)),
                          !.total_entries = Len(kept)],
             last_cleanup |-> now]

\* Mutation of evict_lru: eviction starts only above max_entries
evict_lru_late(c) ==
    IF Len(c.cache) <= MaxEntries
    THEN c
    ELSE [c EXCEPT !.cache = DelAt(c.cache, OldestIndex(c.cache)),
                   !.stats.evictions = @ + 1]

\* _evict_lru (lines 129-140)
evict_lru(c) ==
    IF Len(c.cache) < MaxEntries
    THEN c
    ELSE [c EXCEPT !.cache = DelAt(c.cache, OldestIndex(c.cache)),
                   !.stats.evictions = @ + 1]

NoCall == [op |-> "none"]
NoEntry == [value |-> Miss]   \* entry = None
NotStored == [state |-> "absent"]
Outlived == [state |-> "outlived"]   \* set more than ttl ago

CacheConstructed ==
    /\ cache = <<>>
    /\ stats = [hits |-> 0, misses |-> 0, evictions |-> 0, total_entries |-> 0]
    /\ last_cleanup = 0
    /\ calls = 0
    /\ last_call = NoCall
    /\ stored = [k \in Keys |-> NotStored]
    /\ cache_pc = [t \in Threads |-> "idle"]
    /\ cache_key = [t \in Threads |-> None]
    /\ cache_entry = [t \in Threads |-> NoEntry]
    /\ cache_new = [t \in Threads |-> NoEntry]
    /\ cache_failed = FALSE

\* Mutation of cache_get: a get that finds its entry expired is not counted
\* as a miss
cache_get_uncounted_expiry(question, user_id, agent_type, kwargs) ==
    /\ calls < MaxCalls
    /\ calls' = calls + 1
    /\ LET c == cleanup_expired(CacheState)
           key == generate_key(question, user_id, agent_type, kwargs)
           i == IndexOf(c.cache, key)
       IN IF i = 0
          THEN /\ cache' = c.cache
               /\ stats' = [c.stats EXCEPT !.misses = @ + 1]
               /\ last_cleanup' = c.last_cleanup
               /\ last_call' = [op |-> "get", key |-> key,
                                hit |-> FALSE, value |-> Miss]
          ELSE IF is_expired(c.cache[i], now)
          THEN /\ cache' = DelAt(c.cache, i)
               /\ stats' = [c.stats EXCEPT !.evictions = @ + 1]
               /\ last_cleanup' = c.last_cleanup
               /\ last_call' = [op |-> "get", key |-> key,
                                hit |-> FALSE, value |-> Miss]
          ELSE /\ cache' = [c.cache EXCEPT ![i].hits = @ + 1]
               /\ stats' = [c.stats EXCEPT !.hits = @ + 1]
               /\ last_cleanup' = c.last_cleanup
               /\ last_call' = [op |-> "get", key |-> key,
                                hit |-> TRUE, value |-> c.cache[i].value]
    /\ UNCHANGED <<now, stored>>
    /\ UNCHANGED <<exceptCache, cacheThreadVars>>

\* ResponseCache.get (lines 142-178)
cache_get(question, user_id, agent_type, kwargs) ==
    /\ calls < MaxCalls
    /\ calls' = calls + 1
    /\ LET c == cleanup_expired(CacheState)
           key == generate_key(question, user_id, agent_type, kwargs)
           i == IndexOf(c.cache, key)
       IN IF i = 0
          THEN /\ cache' = c.cache
               /\ stats' = [c.stats EXCEPT !.misses = @ + 1]
               /\ last_cleanup' = c.last_cleanup
               /\ last_call' = [op |-> "get", key |-> key,
                                hit |-> FALSE, value |-> Miss]
          ELSE IF is_expired(c.cache[i], now)
          THEN /\ cache' = DelAt(c.cache, i)
               /\ stats' = [c.stats EXCEPT !.misses = @ + 1, !.evictions = @ + 1]
               /\ last_cleanup' = c.last_cleanup
               /\ last_call' = [op |-> "get", key |-> key,
                                hit |-> FALSE, value |-> Miss]
          ELSE /\ cache' = [c.cache EXCEPT ![i].hits = @ + 1]
               /\ stats' = [c.stats EXCEPT !.hits = @ + 1]
               /\ last_cleanup' = c.last_cleanup
               /\ last_call' = [op |-> "get", key |-> key,
                                hit |-> TRUE, value |-> c.cache[i].value]
    /\ UNCHANGED <<now, stored>>
    /\ UNCHANGED <<exceptCache, cacheThreadVars>>

\* Keys of the entries of a dict
KeysOf(d) == {d[i].key : i \in 1..Len(d)}

\* ResponseCache.set (lines 180-214)
cache_set(question, value, user_id, agent_type, ttl, kwargs) ==
    /\ calls < MaxCalls
    /\ calls' = calls + 1
    /\ LET c1 == cleanup_expired(CacheState)
           c2 == evict_lru(c1)
           key == generate_key(question, user_id, agent_type, kwargs)
           entry == CacheEntry(key, value, now, effective_ttl(ttl))
           d == DictSet(c2.cache, entry)
       IN /\ cache' = d
          /\ stats' = [c2.stats EXCEPT !.total_entries = Len(d)]
          /\ last_cleanup' = c2.last_cleanup
          /\ last_call' = [op |-> "set", key |-> key,
                           evicted |-> Len(c1.cache) - Len(c2.cache)]
          /\ LET gone == KeysOf(c1.cache) \ KeysOf(c2.cache)
             IN stored' = [k \in Keys |->
                             IF k = key
                             THEN [state |-> "live", value |-> value,
                                   until |-> now + (IF ttl # NoTtl THEN ttl
                                                    ELSE DefaultTtl)]
                             ELSE IF k \in gone THEN NotStored ELSE stored[k]]
    /\ UNCHANGED now
    /\ UNCHANGED <<exceptCache, cacheThreadVars>>

\* ResponseCache.invalidate (lines 216-253); `question or ""` turns a
\* missing question into the empty string
cache_invalidate(question, user_id, agent_type, kwargs) ==
    /\ calls < MaxCalls
    /\ calls' = calls + 1
    /\ IF question = NoQuestion /\ user_id = None /\ agent_type = NoAgent /\ kwargs = NoKwargs
       THEN /\ cache' = <<>>
            /\ stats' = [stats EXCEPT !.evictions = @ + Len(cache),
                                      !.total_entries = 0]
            /\ last_call' = [op |-> "invalidate", all |-> TRUE, key |-> None,
                             count |-> Len(cache)]
            /\ stored' = [k \in Keys |-> NotStored]
       ELSE LET key == generate_key(IF question = NoQuestion THEN <<>> ELSE question,
                                    user_id, agent_type, kwargs)
                i == IndexOf(cache, key)
            IN IF i # 0
               THEN /\ cache' = DelAt(cache, i)
                    /\ stats' = [stats EXCEPT !.evictions = @ + 1,
                                              !.total_entries = Len(cache) - 1]
                    /\ last_call' = [op |-> "invalidate", all |-> FALSE,
                                     key |-> key, count |-> 1]
                    /\ stored' = [stored EXCEPT ![key] = NotStored]
               ELSE /\ UNCHANGED <<cache, stats>>
                    /\ last_call' = [op |-> "invalidate", all |-> FALSE,
                                     key |-> key, count |-> 0]
                    /\ stored' = [stored EXCEPT ![key] = NotStored]
    /\ UNCHANGED <<now, last_cleanup>>
    /\ UNCHANGED <<exceptCache, cacheThreadVars>>

\* Time passes between two calls
CacheTick ==
    /\ now < MaxCacheTime
    /\ now' = now + 1
    /\ last_call' = NoCall
    /\ stored' = [k \in Keys |->
                    IF stored[k].state = "live" /\ now' > stored[k].until
                    THEN Outlived ELSE stored[k]]
    /\ UNCHANGED <<cache, stats, last_cleanup, calls>>
    /\ UNCHANGED <<exceptCache, cacheThreadVars>>

----------------------------------------------------------------------------
\* RateLimiter (backend/middleware/rate_limiter.py)
\* The limiter's clock counts seconds; callers let it advance by one of Delays
\* between two calls.

UserIds == {7, None}     \* g.user_id; None for an unauthenticated request
Delays == {1, 10, 60, 61, 3600}

\* Mutation of limiter_key: an unauthenticated request is counted on the
\* record of user 7
limiter_key_of_user(user_id) == IF user_id # None THEN user_id ELSE 7

\* Line 94: key = user_id if user_id is not None else -1
limiter_key(user_id) == IF user_id # None THEN user_id ELSE -1

LimiterKeys == {limiter_key(u) : u \in UserIds}

\* RateLimitConfig: small limits, and the limits of the specification's
\* scenario (3 per minute under roomy burst and hour limits)
RateLimitConfigs ==
    [requests_per_minute : {1, MaxLimit}, requests_per_hour : {1, MaxLimit},
     burst_limit : {1, MaxLimit}]
    \cup {[requests_per_minute |-> 3, requests_per_hour |-> 100, burst_limit |-> 5]}

\* RateLimitConfig with non-negative limits of which at least one is 0
ZeroLimitConfigs ==
    {cfg \in [requests_per_minute : {0, 1, MaxLimit},
              requests_per_hour : {0, 1, MaxLimit},
              burst_limit : {0, 1, MaxLimit}] :
        0 \in {cfg.requests_per_minute, cfg.requests_per_hour, cfg.burst_limit}}

\* RateLimitConfig() with its defaults (lines 24-26)
DefaultLimits ==
    [requests_per_minute |-> 10, requests_per_hour |-> 100, burst_limit |-> 5]

\* UserRateData() as the defaultdict creates it
NewUserRateData ==
    [minute_requests |-> <<>>, hour_requests |-> <<>>, burst_requests |-> <<>>]

\* [t for t in requests if t > horizon]
After(requests, horizon) ==
    LET Newer(t) == t > horizon IN SelectSeq(requests, Newer)

\* Mutation of cleanup_old_requests: the minute list is pruned with the
\* hour's horizon
cleanup_old_requests_hourly(data, current_time) ==
    [minute_requests |-> After(data.minute_requests, current_time - HourWindow),
     hour_requests |-> After(data.hour_requests, current_time - HourWindow),
     burst_requests |-> After(data.burst_requests, current_time - BurstWindow)]

\* _cleanup_old_requests (lines 56-64)
cleanup_old_requests(data, current_time) ==
    [minute_requests |-> After(data.minute_requests, current_time - MinuteWindow),
     hour_requests |-> After(data.hour_requests, current_time - HourWindow),
     burst_requests |-> After(data.burst_requests, current_time - BurstWindow)]

\* Mutation of global_cleanup: a record is removed when its burst list is
\* empty
global_cleanup_burst(ud, last) ==
    IF (now - last) > LimiterCleanupInterval
    THEN [user_data |-> [k \in {j \in DOMAIN ud : ud[j].burst_requests # <<>>} |-> ud[k]],
          last_cleanup |-> now]
    ELSE [user_data |-> ud, last_cleanup |-> last]

\* _maybe_global_cleanup (lines 66-76), on the dict ud with last sweep at `last`
global_cleanup(ud, last) ==
    IF (now - last) > LimiterCleanupInterval
    THEN [user_data |-> [k \in {j \in DOMAIN ud : ud[j].hour_requests # <<>>} |-> ud[k]],
          last_cleanup |-> now]
    ELSE [user_data |-> ud, last_cleanup |-> last]

\* Mutation of at_limit: the test is len(requests) > limit
at_limit_strict(requests, limit) == Len(requests) > limit

\* Lines 101, 111, 121: len(requests) >= limit
at_limit(requests, limit) == Len(requests) >= limit

\* Mutation of first_violated: the minute tier is tested before the burst tier
first_violated_minute_first(data, cfg) ==
    IF at_limit(data.minute_requests, cfg.requests_per_minute) THEN "minute"
    ELSE IF at_limit(data.burst_requests, cfg.burst_limit) THEN "burst"
    ELSE IF at_limit(data.hour_requests, cfg.requests_per_hour) THEN "hour"
    ELSE "none"

\* Lines 100-128: the tiers in the order they are tested
first_violated(data, cfg) ==
    IF at_limit(data.burst_requests, cfg.burst_limit) THEN "burst"
    ELSE IF at_limit(data.minute_requests, cfg.requests_per_minute) THEN "minute"
    ELSE IF at_limit(data.hour_requests, cfg.requests_per_hour) THEN "hour"
    ELSE "none"

\* The list of the tier
tier_requests(data, tier) ==
    IF tier = "burst" THEN data.burst_requests
    ELSE IF tier = "minute" THEN data.minute_requests
    ELSE data.hour_requests

\* Lines 102, 112, 122: requests[0] raises IndexError on an empty list
index_error(data, tier) == tier # "none" /\ tier_requests(data, tier) = <<>>

\* Mutation of retry_after: counted from the newest timestamp of the list
retry_after_newest(data, tier, current_time) ==
    LET requests == tier_requests(data, tier) IN
    IF tier = "burst" THEN BurstWindow - (current_time - requests[Len(requests)])
    ELSE IF tier = "minute" THEN MinuteWindow - (current_time - requests[Len(requests)])
    ELSE HourWindow - (current_time - requests[Len(requests)])

\* Lines 102, 112, 122: window - (current_time - requests[0])
retry_after(data, tier, current_time) ==
    IF tier = "burst" THEN BurstWindow - (current_time - data.burst_requests[1])
    ELSE IF tier = "minute" THEN MinuteWindow - (current_time - data.minute_requests[1])
    ELSE HourWindow - (current_time - data.hour_requests[1])

\* Mutation of record_request: the request is not counted against the hour
record_request_no_hour(data, current_time) ==
    [minute_requests |-> Append(data.minute_requests, current_time),
     hour_requests |-> data.hour_requests,
     burst_requests |-> Append(data.burst_requests, current_time)]

\* Lines 131-133: the request is recorded in all three lists
record_request(data, current_time) ==
    [minute_requests |-> Append(data.minute_requests, current_time),
     hour_requests |-> Append(data.hour_requests, current_time),
     burst_requests |-> Append(data.burst_requests, current_time)]

\* Lines 135-140: the remaining counts an allowed call returns, from the
\* lists the request was just appended to
remaining(data, cfg) ==
    [minute |-> cfg.requests_per_minute - Len(data.minute_requests),
     hour |-> cfg.requests_per_hour - Len(data.hour_requests),
     burst |-> cfg.burst_limit - Len(data.burst_requests)]

\* A rejection's info has no remaining counts
NoRemaining == [minute |-> 0, hour |-> 0, burst |-> 0]

\* No call yet.  prev_type and prev_at are limit_type and at of the
\* identity's call before this one; error is the exception the call raised
\* instead of returning.
NoResult == [allowed |-> TRUE, limit_type |-> "none", retry_after |-> 0, at |-> -1,
             prev_type |-> "none", prev_at |-> -1,
             remaining |-> NoRemaining, error |-> "none"]

\* What a call made at current_time returns (lines 103-108, 113-118, 123-128,
\* 135-140), or the error it raises: tier is the first violated tier, data
\* the identity's lists when the call ends, prev the identity's result before
limit_result(data, tier, current_time, cfg, prev) ==
    [allowed |-> tier = "none", limit_type |-> tier,
     retry_after |-> IF tier = "none" \/ index_error(data, tier) THEN 0
                     ELSE retry_after(data, tier, current_time),
     at |-> current_time,
     prev_type |-> prev.limit_type, prev_at |-> prev.at,
     remaining |-> IF tier = "none" THEN remaining(data, cfg) ELSE NoRemaining,
     error |-> IF index_error(data, tier) THEN "IndexError" ELSE "none"]

LimiterConstructed ==
    /\ user_data = [k \in {} |-> NewUserRateData]
    /\ limiter_cleanup = 0
    /\ checks = 0
    /\ ticks = 0
    /\ last_result = [k \in LimiterKeys |-> NoResult]
    /\ allowed_log = [k \in LimiterKeys |-> <<>>]
    /\ anonymous_log = <<>>
    /\ lim_pc = [t \in Threads |-> "idle"]
    /\ lim_key = [t \in Threads |-> None]
    /\ lim_time = [t \in Threads |-> 0]
    /\ lim_list = [t \in Threads |-> <<>>]

\* RateLimiter.check_limit (lines 78-140): what the call does to the limiter
check_limit_call(user_id) ==
    /\ LET current_time == now
           swept == global_cleanup(user_data, limiter_cleanup)
           key == limiter_key(user_id)
           found == IF key \in DOMAIN swept.user_data
                    THEN swept.user_data[key] ELSE NewUserRateData
           data == cleanup_old_requests(found, current_time)
           tier == first_violated(data, limits)
           kept == IF tier = "none" THEN record_request(data, current_time) ELSE data
       IN /\ user_data' = [k \in DOMAIN swept.user_data \cup {key} |->
                             IF k = key THEN kept ELSE swept.user_data[k]]
          /\ limiter_cleanup' = swept.last_cleanup
          /\ last_result' = [last_result EXCEPT ![key] =
                               limit_result(kept, tier, current_time, limits, @)]
          /\ allowed_log' = [allowed_log EXCEPT ![key] =
                               IF tier = "none" THEN Append(@, current_time) ELSE @]
          /\ anonymous_log' = IF tier = "none" /\ user_id = None
                              THEN Append(anonymous_log, current_time)
                              ELSE anonymous_log

\* A check_limit call on a RateLimiter
check_limit(user_id) ==
    /\ checks < MaxChecks
    /\ checks' = checks + 1
    /\ check_limit_call(user_id)
    /\ UNCHANGED <<now, limits, ticks>>
    /\ UNCHANGED <<exceptLimiter, limiterThreadVars>>

\* Mutation of get_user_status: the burst list is left as it is
get_user_status_unpruned_burst(user_id) ==
    /\ checks < MaxChecks
    /\ checks' = checks + 1
    /\ LET current_time == now
           key == limiter_key(user_id)
           found == IF key \in DOMAIN user_data
                    THEN user_data[key] ELSE NewUserRateData
           data == [cleanup_old_requests(found, current_time)
                       EXCEPT !.burst_requests = found.burst_requests]
       IN user_data' = [k \in DOMAIN user_data \cup {key} |->
                          IF k = key THEN data ELSE user_data[k]]
    /\ UNCHANGED <<now, limits, limiter_cleanup, ticks, last_result, allowed_log,
                   anonymous_log>>
    /\ UNCHANGED <<exceptLimiter, limiterThreadVars>>

\* RateLimiter.get_user_status (lines 142-160): self.user_data[key] creates
\* the identity's record when it has none, the lists are pruned, and the
\* counts are reported; no global cleanup
get_user_status(user_id) ==
    /\ checks < MaxChecks
    /\ checks' = checks + 1
    /\ LET current_time == now
           key == limiter_key(user_id)
           found == IF key \in DOMAIN user_data
                    THEN user_data[key] ELSE NewUserRateData
           data == cleanup_old_requests(found, current_time)
       IN user_data' = [k \in DOMAIN user_data \cup {key} |->
                          IF k = key THEN data ELSE user_data[k]]
    /\ UNCHANGED <<now, limits, limiter_cleanup, ticks, last_result, allowed_log,
                   anonymous_log>>
    /\ UNCHANGED <<exceptLimiter, limiterThreadVars>>

\* Time passes between two calls
LimiterTick(d) ==
    /\ ticks < MaxTicks
    /\ ticks' = ticks + 1
    /\ now' = now + d
    /\ UNCHANGED <<limits, user_data, limiter_cleanup, checks, last_result, allowed_log, anonymous_log>>
    /\ UNCHANGED <<exceptLimiter, limiterThreadVars>>

----------------------------------------------------------------------------
\* rate_limit (backend/middleware/rate_limiter.py lines 186-232), the
\* decorator of the routes /api/ask and /api/agent (app.py lines 419-421,
\* 516-518).  It checks against the global _rate_limiter (line 165), a
\* RateLimiter() with the default limits.  Each request is served by a
\* thread; the wrapped handler f takes time, the check does not.

\* The status code a wrapped handler returns
HandlerStatuses == {200}

\* g.user_id of the requests: both routes are behind require_auth (app.py
\* lines 420, 517), which sets it from the token (auth.py line 267)
RouteUsers == {7}

\* Time that passes between two steps of the route: a second, or the burst
\* window
RouteDelays == {1, BurstWindow}

\* A response: its status, who built its body, the body's retry_after and
\* limit_type, the Retry-After header (-1: not set) and the
\* X-RateLimit-Remaining-Minute header (-1: not set)
NoResponse ==
    [status |-> 0, body |-> "none", retry_after |-> 0, limit_type |-> "none",
     retry_after_header |-> -1, remaining_minute_header |-> -1]

\* Lines 207-213: the rejection's response.  info["retry_after"] is a whole
\* number of seconds here, which int() leaves as it is.
rejection_response(info) ==
    [status |-> TooManyRequests, body |-> "rate_limit",
     retry_after |-> info.retry_after, limit_type |-> info.limit_type,
     retry_after_header |-> info.retry_after, remaining_minute_header |-> -1]

\* Lines 216-230: the handler's response with the header of line 227
handler_response(status, info) ==
    [status |-> status, body |-> "handler", retry_after |-> 0,
     limit_type |-> "none", retry_after_header |-> -1,
     remaining_minute_header |-> info.remaining.minute]

RouteConstructed ==
    /\ rt_pc = [t \in Threads |-> "idle"]
    /\ rt_user = [t \in Threads |-> None]
    /\ rt_info = [t \in Threads |-> NoResult]
    /\ response = NoResponse
    /\ route_requests = 0
    /\ handler_calls = 0

\* Request threads are interchangeable: the idle thread with the lowest
\* number serves the next request
LowestIdleRoute(t) ==
    /\ rt_pc[t] = "idle"
    /\ \A u \in Threads : u < t => rt_pc[u] # "idle"

\* Mutation of decorated_function: the handler is called after a rejected
\* check as well
decorated_function_unguarded(t, user_id) ==
    /\ LowestIdleRoute(t)
    /\ route_requests < MaxRequests
    /\ route_requests' = route_requests + 1
    /\ check_limit_call(user_id)
    /\ LET info == last_result'[limiter_key(user_id)] IN
       /\ response' = IF info.allowed THEN response ELSE rejection_response(info)
       /\ rt_pc' = [rt_pc EXCEPT ![t] = "handler"]
       /\ rt_user' = [rt_user EXCEPT ![t] = user_id]
       /\ rt_info' = [rt_info EXCEPT ![t] = info]
    /\ UNCHANGED <<now, limits, checks, ticks, handler_calls>>
    /\ UNCHANGED <<exceptRoute, limiterThreadVars>>

\* decorated_function, lines 203-213: user_id = getattr(g, 'user_id', None);
\* allowed, info = check_rate_limit(user_id); a rejection is answered at
\* once, otherwise f is about to be called (line 216)
decorated_function(t, user_id) ==
    /\ LowestIdleRoute(t)
    /\ route_requests < MaxRequests
    /\ route_requests' = route_requests + 1
    /\ check_limit_call(user_id)
    /\ LET info == last_result'[limiter_key(user_id)] IN
       IF ~info.allowed
       THEN /\ response' = rejection_response(info)
            /\ UNCHANGED <<rt_pc, rt_user, rt_info>>
       ELSE /\ rt_pc' = [rt_pc EXCEPT ![t] = "handler"]
            /\ rt_user' = [rt_user EXCEPT ![t] = user_id]
            /\ rt_info' = [rt_info EXCEPT ![t] = info]
            /\ UNCHANGED response
    /\ UNCHANGED <<now, limits, checks, ticks, handler_calls>>
    /\ UNCHANGED <<exceptRoute, limiterThreadVars>>

\* Lines 216-230: response = f(*args, **kwargs) runs the handler (cache
\* lookup, agent), the headers are added and the response is returned
handler_returns(t, status) ==
    /\ rt_pc[t] = "handler"
    /\ handler_calls' = handler_calls + 1
    /\ response' = handler_response(status, rt_info[t])
    /\ rt_pc' = [rt_pc EXCEPT ![t] = "idle"]
    /\ rt_user' = [rt_user EXCEPT ![t] = None]
    /\ rt_info' = [rt_info EXCEPT ![t] = NoResult]
    /\ UNCHANGED <<now, limiterVars, route_requests>>
    /\ UNCHANGED <<exceptRoute, limiterThreadVars>>

----------------------------------------------------------------------------
\* SchemaDiscovery (backend/analytics/schema.py)

\* A connector as get_schema_info uses it: what get_db_type() returns, and
\* whether the object has the attributes `catalog` and `schema`.  The
\* DatabaseConnector base class (connector.py lines 40-71) declares neither;
\* SQLiteConnector has neither, DatabricksConnector has both (lines 142-143).
\* The connectors pass themselves (lines 112, 241), and a process has one
\* connector (get_database_connector, lines 295-316): every call of a
\* behaviour is given the same one.
SQLiteConnector == [db_type |-> "sqlite", has_catalog |-> FALSE]
DatabricksConnector == [db_type |-> "databricks", has_catalog |-> TRUE]
Connectors ==
    {SQLiteConnector, DatabricksConnector,
     [db_type |-> "other", has_catalog |-> FALSE],
     [db_type |-> "other", has_catalog |-> TRUE]}

\* A schema text: which text it is, and for a discovered one the schema of
\* the database it describes
SchemaText(kind, version) == [kind |-> kind, version |-> version]
NoText == SchemaText("none", 0)
AttributeError == SchemaText("AttributeError", 0)

\* Both connectors' get_table_names (connector.py lines 118-120, 255-257)
TableNames == <<"products", "sales">>

\* SchemaCache (lines 18-25); columns is always {} and is left out
SchemaCache(schema_info, tables, cached_at, ttl) ==
    [schema_info |-> schema_info, tables |-> tables,
     cached_at |-> cached_at, ttl |-> ttl]

\* self._cache = None
NoSchemaCache == SchemaCache(NoText, <<>>, 0, 0)

\* SchemaCache.is_valid (lines 27-28)
is_valid_inclusive(entry, current_time) ==
    (current_time - entry.cached_at) <= entry.ttl

is_valid(entry, current_time) ==
    (current_time - entry.cached_at) < entry.ttl

\* _discover_sqlite_schema, _discover_databricks_schema (lines 152-242): the
\* text built from the metadata the database returns
discovered_text(connector, version) == SchemaText(connector.db_type, version)

\* _get_fallback_schema (lines 244-252): the sqlite text for a sqlite
\* connector; for every other connector the Databricks template, formatted
\* with connector.catalog and connector.schema
get_fallback_schema(connector) ==
    IF connector.db_type = "sqlite"
    THEN SchemaText("sqlite_fallback", 0)
    ELSE IF connector.has_catalog
         THEN SchemaText("databricks_fallback", 0)
         ELSE AttributeError

NoSchemaResult == [kind |-> "none", text |-> NoText]

\* __init__ (lines 99-102)
SchemaConstructed ==
    /\ schema_cache = NoSchemaCache
    /\ db_version = 0
    /\ sd_pc = [t \in Threads |-> "idle"]
    /\ sd_text = [t \in Threads |-> NoText]
    /\ schema_calls = 0
    /\ schema_force = FALSE
    /\ schema_result = NoSchemaResult
    /\ last_discovery = NoSchemaCache

\* Threads are interchangeable: the idle thread with the lowest number makes
\* the next call
LowestIdleSchema(t) ==
    /\ sd_pc[t] = "idle"
    /\ \A u \in Threads : u < t => sd_pc[u] # "idle"

\* The call of thread t returns (or raises)
schema_return(t, kind, text) ==
    /\ schema_result' = [kind |-> kind, text |-> text]
    /\ sd_pc' = [sd_pc EXCEPT ![t] = "idle"]
    /\ sd_text' = [sd_text EXCEPT ![t] = NoText]

\* The except clause (lines 137-139): the fallback text is returned, unless
\* building it raises
schema_except(t) ==
    LET text == get_fallback_schema(connector_instance)
    IN /\ schema_return(t, IF text = AttributeError THEN "raised" ELSE "fallback", text)
       /\ UNCHANGED <<schema_cache, last_discovery>>

\* get_schema_info, lines 119-121: under the lock, the cached text is
\* returned when refresh is not forced and there is a valid entry
get_schema_info_enter(t, connector, force_refresh) ==
    /\ LowestIdleSchema(t)
    /\ connector = connector_instance
    /\ schema_calls < MaxSchemaCalls
    /\ schema_calls' = schema_calls + 1
    /\ schema_force' = force_refresh
    /\ IF ~force_refresh /\ schema_cache # NoSchemaCache /\ is_valid(schema_cache, now)
       THEN /\ schema_result' = [kind |-> "cached", text |-> schema_cache.schema_info]
            /\ UNCHANGED sd_pc
       ELSE /\ sd_pc' = [sd_pc EXCEPT ![t] = "discover"]
            /\ UNCHANGED schema_result
    /\ UNCHANGED <<now, schema_cache, cache_ttl, db_version, connector_instance,
                   sd_text, last_discovery>>
    /\ UNCHANGED exceptSchema

\* get_schema_info, line 124, with _discover_schema (lines 141-150), outside
\* the lock: a connector of unknown type makes it raise ValueError, and the
\* executor can fail (ok = FALSE)
discover_schema(t, ok) ==
    /\ sd_pc[t] = "discover"
    /\ IF connector_instance.db_type \in {"sqlite", "databricks"} /\ ok
       THEN /\ sd_text' = [sd_text EXCEPT ![t] =
                              discovered_text(connector_instance, db_version)]
            /\ sd_pc' = [sd_pc EXCEPT ![t] = "install"]
            /\ UNCHANGED <<schema_result, schema_cache, last_discovery>>
       ELSE schema_except(t)
    /\ UNCHANGED <<now, cache_ttl, db_version, connector_instance, schema_calls,
                   schema_force>>
    /\ UNCHANGED exceptSchema

\* get_schema_info, lines 126-135: under the lock a new SchemaCache is built
\* and bound to self._cache; connector.get_table_names() can fail (ok = FALSE)
schema_install_in_place(t, ok) ==
    /\ sd_pc[t] = "install"
    /\ IF ok
       THEN /\ schema_cache' =
                 IF schema_cache = NoSchemaCache
                 THEN SchemaCache(sd_text[t], TableNames, now, cache_ttl)
                 ELSE [schema_cache EXCEPT !.schema_info = sd_text[t]]
            /\ last_discovery' = [schema_info |-> sd_text[t], tables |-> TableNames,
                                  cached_at |-> now, ttl |-> cache_ttl]
            /\ schema_return(t, "fresh", sd_text[t])
       ELSE schema_except(t)
    /\ UNCHANGED <<now, cache_ttl, db_version, connector_instance, schema_calls,
                   schema_force>>
    /\ UNCHANGED exceptSchema

schema_install(t, ok) ==
    /\ sd_pc[t] = "install"
    /\ IF ok
       THEN /\ schema_cache' = SchemaCache(sd_text[t], TableNames, now, cache_ttl)
            /\ last_discovery' = [schema_info |-> sd_text[t], tables |-> TableNames,
                                  cached_at |-> now, ttl |-> cache_ttl]
            /\ schema_return(t, "fresh", sd_text[t])
       ELSE schema_except(t)
    /\ UNCHANGED <<now, cache_ttl, db_version, connector_instance, schema_calls,
                   schema_force>>
    /\ UNCHANGED exceptSchema

\* invalidate_cache (lines 254-257)
invalidate_cache ==
    /\ schema_cache # NoSchemaCache
    /\ schema_cache' = NoSchemaCache
    /\ last_discovery' = NoSchemaCache
    /\ UNCHANGED <<now, cache_ttl, db_version, connector_instance, sd_pc, sd_text,
                   schema_calls, schema_force, schema_result>>
    /\ UNCHANGED exceptSchema

\* get_schema_info takes the connector as an argument (lines 104-108): from
\* now on the callers pass another connector to the same SchemaDiscovery
use_connector(connector) ==
    /\ \A t \in Threads : sd_pc[t] = "idle"
    /\ connector # connector_instance
    /\ connector_instance' = connector
    /\ UNCHANGED <<now, schema_cache, cache_ttl, db_version, sd_pc, sd_text,
                   schema_calls, schema_force, schema_result, last_discovery>>
    /\ UNCHANGED exceptSchema

\* The database schema changes
SchemaChange ==
    /\ db_version < MaxVersions
    /\ db_version' = db_version + 1
    /\ UNCHANGED <<now, schema_cache, cache_ttl, connector_instance, sd_pc, sd_text,
                   schema_calls, schema_force, schema_result, last_discovery>>
    /\ UNCHANGED exceptSchema

\* time.time() moves on
SchemaTick ==
    /\ now < MaxSchemaTime
    /\ now' = now + 1
    /\ UNCHANGED schemaVars
    /\ UNCHANGED exceptSchema

----------------------------------------------------------------------------
\* DatabricksConnectionPool (backend/analytics/connection_pool.py)

\* DatabricksConnectionPool.__init__ (lines 76-94), the config aside
PoolConstructed ==
    /\ pool = <<>>
    /\ all_connections = <<>>
    /\ lock = None
    /\ closed = FALSE
    /\ initialized = FALSE
    /\ conns = [c \in ConnIds |-> Unborn]
    /\ pc = [t \in Threads |-> "idle"]
    /\ pooled = [t \in Threads |-> None]
    /\ start_time = [t \in Threads |-> 0]
    /\ poll_start = [t \in Threads |-> 0]
    /\ init_i = [t \in Threads |-> 0]
    /\ ret = [t \in Threads |-> "none"]
    /\ call_closed = [t \in Threads |-> FALSE]
    /\ exhausted = [t \in Threads |-> FALSE]

\* The pool's own configuration
OnePoolConfig ==
    [min_size |-> 0, max_size |-> 1, acquire_timeout |-> AcquireTimeout,
     idle_timeout |-> IdleTimeout, validation_interval |-> ValidationInterval]

PoolInit ==
    /\ now = 0
    /\ config \in PoolConfig
    /\ PoolConstructed
    /\ CacheConstructed
    /\ limits = DefaultLimits
    /\ LimiterConstructed
    /\ cache_ttl = SchemaTtl
    /\ connector_instance = SQLiteConnector
    /\ SchemaConstructed
    /\ RouteConstructed

\* Line 189: while (time.time() - start_time) < acquire_timeout: the body
\* begins with self._pool.get(timeout=1.0) (line 192); on exit pooled is None
\* and lines 217-220 raise DatabaseConnectionError
WhileTest(t, st) ==
    IF 2 * (now - st) < config.acquire_timeout
    THEN /\ pc' = [pc EXCEPT ![t] = "get"]
         /\ poll_start' = [poll_start EXCEPT ![t] = now]
    ELSE /\ pc' = [pc EXCEPT ![t] = "raise_timeout"]
         /\ UNCHANGED poll_start

\* Lines 186-189: pooled = None; start_time = time.time(); first loop test
BeginLoop(t) ==
    /\ pooled' = [pooled EXCEPT ![t] = None]
    /\ start_time' = [start_time EXCEPT ![t] = now]
    /\ exhausted' = [exhausted EXCEPT ![t] = PoolExhausted]
    /\ WhileTest(t, now)

\* Idle threads hold no state of their own (every local is reset on the way
\* back to idle), so they are interchangeable: the next call is made by the
\* lowest idle thread
LowestIdle(t) ==
    /\ pc[t] = "idle"
    /\ \A u \in Threads : u < t => pc[u] # "idle"

\* Mutation of get_connection_enter: the test of self._closed is missing
get_connection_enter_unchecked(t) ==
    /\ LowestIdle(t)
    /\ call_closed' = [call_closed EXCEPT ![t] = closed]
    /\ IF initialized
       THEN BeginLoop(t)
       ELSE /\ pc' = [pc EXCEPT ![t] = "ei_lock"]
            /\ UNCHANGED <<pooled, start_time, exhausted, poll_start>>
    /\ UNCHANGED <<now, config, pool, all_connections, lock, closed, initialized,
                   conns, init_i, ret>>
    /\ UNCHANGED exceptPool

\* A caller enters get_connection().  Lines 181-184 and _ensure_initialized
\* lines 98-99: the first statement is if self._closed: raise; then
\* self._ensure_initialized() with its unlocked test
get_connection_enter(t) ==
    /\ LowestIdle(t)
    /\ call_closed' = [call_closed EXCEPT ![t] = closed]
    /\ IF closed
       THEN /\ pc' = [pc EXCEPT ![t] = "raise_closed"]
            /\ UNCHANGED <<pooled, start_time, exhausted, poll_start>>
       ELSE IF initialized
            THEN BeginLoop(t)
            ELSE /\ pc' = [pc EXCEPT ![t] = "ei_lock"]
                 /\ UNCHANGED <<pooled, start_time, exhausted, poll_start>>
    /\ UNCHANGED <<now, config, pool, all_connections, lock, closed, initialized,
                   conns, init_i, ret>>
    /\ UNCHANGED exceptPool

\* Lines 182 and 218-220: DatabaseConnectionError leaves get_connection
raise_error(t) ==
    /\ pc[t] \in {"raise_closed", "raise_timeout"}
    /\ pc' = [pc EXCEPT ![t] = "idle"]
    /\ start_time' = [start_time EXCEPT ![t] = 0]
    /\ call_closed' = [call_closed EXCEPT ![t] = FALSE]
    /\ exhausted' = [exhausted EXCEPT ![t] = FALSE]
    /\ UNCHANGED <<now, config, pool, all_connections, lock, closed, initialized,
                   conns, pooled, poll_start, init_i, ret>>
    /\ UNCHANGED exceptPool

\* Mutation of ensure_initialized_lock: self._initialized is not tested again
\* under the lock
ensure_initialized_lock_untested(t) ==
    /\ pc[t] = "ei_lock"
    /\ lock = None
    /\ lock' = t
    /\ init_i' = [init_i EXCEPT ![t] = 0]
    /\ pc' = [pc EXCEPT ![t] = "ei_loop"]
    /\ UNCHANGED <<pooled, start_time, exhausted, poll_start>>
    /\ UNCHANGED <<now, config, pool, all_connections, closed, initialized,
                   conns, ret, call_closed>>
    /\ UNCHANGED exceptPool

\* _ensure_initialized, lines 101-103: with self._lock: second test
ensure_initialized_lock(t) ==
    /\ pc[t] = "ei_lock"
    /\ lock = None
    /\ IF initialized
       THEN /\ BeginLoop(t)
            /\ UNCHANGED <<lock, init_i>>
       ELSE /\ lock' = t
            /\ init_i' = [init_i EXCEPT ![t] = 0]
            /\ pc' = [pc EXCEPT ![t] = "ei_loop"]
            /\ UNCHANGED <<pooled, start_time, exhausted, poll_start>>
    /\ UNCHANGED <<now, config, pool, all_connections, closed, initialized,
                   conns, ret, call_closed>>
    /\ UNCHANGED exceptPool

\* _create_connection, lines 116-133: the factory call (databricks_sql.connect)
\* returned a new open connection, wrapped in a PooledConnection.  The thread
\* then waits for self._lock at line 135.
FactorySucceeds(t, caller) ==
    /\ NextConn # None
    /\ conns' = [conns EXCEPT ![NextConn] = PooledConnection(now)]
    /\ pooled' = [pooled EXCEPT ![t] = NextConn]
    /\ ret' = [ret EXCEPT ![t] = caller]
    /\ pc' = [pc EXCEPT ![t] = "create_lock"]

\* Mutation of ensure_initialized_loop: the factory's exception is not caught
\* and leaves get_connection
ensure_initialized_loop_uncaught(t) ==
    /\ pc[t] = "ei_loop"
    /\ IF init_i[t] < config.min_size
       THEN \/ /\ FactorySucceeds(t, "init")
               /\ UNCHANGED <<lock, initialized, init_i, start_time, exhausted,
                              poll_start>>
            \/ /\ lock' = None
               /\ init_i' = [init_i EXCEPT ![t] = 0]
               /\ pc' = [pc EXCEPT ![t] = "idle"]
               /\ UNCHANGED <<initialized, conns, pooled, ret,
                              start_time, exhausted, poll_start>>
       ELSE /\ initialized' = TRUE
            /\ lock' = None
            /\ init_i' = [init_i EXCEPT ![t] = 0]
            /\ BeginLoop(t)
            /\ UNCHANGED <<conns, ret>>
    /\ UNCHANGED <<now, config, pool, all_connections, closed, call_closed>>
    /\ UNCHANGED exceptPool

\* _ensure_initialized, lines 105-112: the warm-up loop, run holding self._lock
ensure_initialized_loop(t) ==
    /\ pc[t] = "ei_loop"
    /\ IF init_i[t] < config.min_size
       THEN \/ /\ FactorySucceeds(t, "init")
               /\ UNCHANGED <<lock, initialized, init_i, start_time, exhausted,
                              poll_start>>
            \/ \* the factory raised: except Exception, next iteration
               /\ init_i' = [init_i EXCEPT ![t] = init_i[t] + 1]
               /\ UNCHANGED <<lock, initialized, conns, pooled, ret, pc,
                              start_time, exhausted, poll_start>>
       ELSE /\ initialized' = TRUE
            /\ lock' = None
            /\ init_i' = [init_i EXCEPT ![t] = 0]
            /\ BeginLoop(t)
            /\ UNCHANGED <<conns, ret>>
    /\ UNCHANGED <<now, config, pool, all_connections, closed, call_closed>>
    /\ UNCHANGED exceptPool

\* _create_connection, lines 135-138: with self._lock: append; return pooled.
\* Caller "init": self._pool.put(conn) and the next warm-up iteration (108).
\* Caller "loop": pooled.in_use = True; break; yield (lines 212-213, 223).
create_connection_append(t) ==
    /\ pc[t] = "create_lock"
    /\ lock = None
    /\ all_connections' = Append(all_connections, pooled[t])
    /\ IF ret[t] = "init"
       THEN /\ Len(pool) < config.max_size
            /\ pool' = Append(pool, pooled[t])
            /\ init_i' = [init_i EXCEPT ![t] = init_i[t] + 1]
            /\ pooled' = [pooled EXCEPT ![t] = None]
            /\ pc' = [pc EXCEPT ![t] = "ei_loop"]
            /\ UNCHANGED <<conns, start_time>>
       ELSE /\ conns' = [conns EXCEPT ![pooled[t]].in_use = TRUE]
            /\ pc' = [pc EXCEPT ![t] = "yield"]
            /\ start_time' = [start_time EXCEPT ![t] = 0]
            /\ UNCHANGED <<pool, init_i, pooled>>
    /\ ret' = [ret EXCEPT ![t] = "none"]
    /\ UNCHANGED <<now, config, lock, closed, initialized, poll_start,
                   call_closed, exhausted>>
    /\ UNCHANGED exceptPool

\* Mutation of queue_get: the item is returned but stays in the queue
queue_get_peek(q) == [item |-> Head(q), rest |-> q]

\* Queue.get on a non-empty queue (line 192): removes and returns the head
queue_get(q) == [item |-> Head(q), rest |-> Tail(q)]

\* Mutation of RecentlyValidated: the probe is also skipped for a connection
\* validated exactly validation_interval ago
RecentlyValidated_inclusive(c) ==
    (now - conns[c].last_validated_at) <= config.validation_interval

\* _validate_connection, lines 142-146: no probe when validated recently
RecentlyValidated(c) ==
    (now - conns[c].last_validated_at) < config.validation_interval

\* Lines 192-202: pooled = self._pool.get(timeout=1.0) returns the head of
\* the queue as soon as there is one and raises queue.Empty once the queue
\* stayed empty for 1.0 s.  A connection taken from the queue is validated
\* (_validate_connection, 140-155): the probe "SELECT 1" raises on a closed
\* connection and may raise on an open one (the server can drop it).  An
\* invalid connection is closed (_close_connection, 159-162).
pool_get(t) ==
    /\ pc[t] = "get"
    /\ IF pool # <<>>
       THEN LET c == queue_get(pool).item IN
            /\ pooled' = [pooled EXCEPT ![t] = c]
            /\ pool' = queue_get(pool).rest
            /\ \/ \* valid: probe skipped, or probe succeeded
                  /\ \/ /\ RecentlyValidated(c)
                        /\ conns' = [conns EXCEPT ![c].in_use = TRUE,
                                                  ![c].last_used_at = now]
                     \/ /\ ~RecentlyValidated(c)
                        /\ conns[c].state = "open"
                        /\ conns' = [conns EXCEPT ![c].in_use = TRUE,
                                                  ![c].last_used_at = now,
                                                  ![c].last_validated_at = now]
                  /\ pc' = [pc EXCEPT ![t] = "yield"]
                  /\ start_time' = [start_time EXCEPT ![t] = 0]
                  /\ UNCHANGED ret
               \/ \* probe raised: self._close_connection(pooled)
                  /\ ~RecentlyValidated(c)
                  /\ conns' = [conns EXCEPT ![c].state = "closed"]
                  /\ ret' = [ret EXCEPT ![t] = "loop"]
                  /\ pc' = [pc EXCEPT ![t] = "close_lock"]
                  /\ UNCHANGED start_time
       ELSE /\ (now - poll_start[t]) >= PollTimeout
            /\ pc' = [pc EXCEPT ![t] = "count"]
            /\ UNCHANGED <<pooled, pool, conns, ret, start_time>>
    /\ poll_start' = [poll_start EXCEPT ![t] = 0]
    /\ UNCHANGED <<now, config, all_connections, lock, closed, initialized,
                   init_i, call_closed, exhausted>>
    /\ UNCHANGED exceptPool

\* _close_connection, lines 164-166: with self._lock: remove from the list.
\* Caller "loop": pooled = None, next iteration (line 202).
\* Caller "release": the finally block ends (line 234).
\* The connection came out of the queue and this thread held the last
\* reference to it.
close_connection_remove(t) ==
    /\ pc[t] = "close_lock"
    /\ lock = None
    /\ all_connections' = ListRemove(all_connections, pooled[t])
    /\ conns' = [conns EXCEPT ![pooled[t]] = Dropped]
    /\ pooled' = [pooled EXCEPT ![t] = None]
    /\ IF ret[t] = "loop"
       THEN WhileTest(t, start_time[t])
       ELSE /\ pc' = [pc EXCEPT ![t] = "idle"]
            /\ UNCHANGED poll_start
    /\ ret' = [ret EXCEPT ![t] = "none"]
    /\ UNCHANGED <<now, config, pool, lock, closed, initialized, start_time,
                   init_i, call_closed, exhausted>>
    /\ UNCHANGED exceptPool

\* Lines 204-215: except Empty: with self._lock: current_count = len(...);
\* if current_count < max_size: try to create a connection
get_connection_count(t) ==
    /\ pc[t] = "count"
    /\ lock = None
    /\ LET current_count == Len(all_connections) IN
       IF current_count < config.max_size
       THEN \/ /\ FactorySucceeds(t, "loop")
               /\ UNCHANGED poll_start
            \/ \* the factory raised: except Exception, next iteration
               /\ WhileTest(t, start_time[t])
               /\ UNCHANGED <<conns, pooled, ret>>
       ELSE /\ WhileTest(t, start_time[t])
            /\ UNCHANGED <<conns, pooled, ret>>
    /\ UNCHANGED <<now, config, pool, all_connections, lock, closed, initialized,
                   start_time, init_i, call_closed, exhausted>>
    /\ UNCHANGED exceptPool

\* Lines 224-229: the with-body ends; finally: in_use = False, and the
\* test `if not self._closed`
release_finally(t) ==
    /\ pc[t] = "yield"
    /\ conns' = [conns EXCEPT ![pooled[t]].in_use = FALSE,
                              ![pooled[t]].last_used_at = now]
    /\ IF ~closed
       THEN /\ pc' = [pc EXCEPT ![t] = "put"]
            /\ UNCHANGED pooled
       ELSE /\ pc' = [pc EXCEPT ![t] = "idle"]
            /\ pooled' = [pooled EXCEPT ![t] = None]
    /\ exhausted' = [u \in Threads |-> FALSE]
    /\ UNCHANGED <<now, config, pool, all_connections, lock, closed, initialized,
                   start_time, poll_start, init_i, ret, call_closed>>
    /\ UNCHANGED exceptPool

\* Lines 230-234: self._pool.put_nowait(pooled); on queue.Full the first half
\* of _close_connection (159-162)
release_put(t) ==
    /\ pc[t] = "put"
    /\ IF Len(pool) < config.max_size
       THEN /\ pool' = Append(pool, pooled[t])
            /\ pooled' = [pooled EXCEPT ![t] = None]
            /\ pc' = [pc EXCEPT ![t] = "idle"]
            /\ UNCHANGED <<conns, ret>>
       ELSE /\ conns' = [conns EXCEPT ![pooled[t]].state = "closed"]
            /\ ret' = [ret EXCEPT ![t] = "release"]
            /\ pc' = [pc EXCEPT ![t] = "close_lock"]
            /\ UNCHANGED <<pool, pooled>>
    /\ UNCHANGED <<now, config, all_connections, lock, closed, initialized,
                   start_time, poll_start, init_i, call_closed, exhausted>>
    /\ UNCHANGED exceptPool

\* close(), line 238: self._closed = True
close_mark(t) ==
    /\ LowestIdle(t)
    /\ closed' = TRUE
    /\ pc' = [pc EXCEPT ![t] = "close_all"]
    /\ exhausted' = [u \in Threads |-> FALSE]
    /\ UNCHANGED <<now, config, pool, all_connections, lock, initialized, conns,
                   pooled, start_time, poll_start, init_i, ret, call_closed>>
    /\ UNCHANGED exceptPool

\* close(), lines 240-246: with self._lock: close every listed connection, clear
close_all(t) ==
    /\ pc[t] = "close_all"
    /\ lock = None
    /\ conns' = [c \in ConnIds |->
                   IF c \in Range(all_connections)
                   THEN [conns[c] EXCEPT !.state = "closed"]
                   ELSE conns[c]]
    /\ all_connections' = <<>>
    /\ pc' = [pc EXCEPT ![t] = "idle"]
    /\ UNCHANGED <<now, config, pool, lock, closed, initialized, pooled,
                   start_time, poll_start, init_i, ret, call_closed, exhausted>>
    /\ UNCHANGED exceptPool

\* A thread has a statement it can execute right now
Runnable(t) ==
    \/ pc[t] \in {"raise_closed", "raise_timeout", "ei_loop", "put"}
    \/ pc[t] \in {"ei_lock", "create_lock", "close_lock", "count", "close_all"}
       /\ lock = None
    \/ pc[t] = "get" /\ (pool # <<>> \/ (now - poll_start[t]) >= PollTimeout)

\* The clock advances while no thread has a statement to execute
PoolTick ==
    /\ now < MaxTime
    /\ \A t \in Threads : ~Runnable(t)
    /\ now' = now + 1
    /\ UNCHANGED <<poolVars, exceptPool>>

PoolNext ==
    \/ \E t \in Threads : get_connection_enter(t)
    \/ \E t \in Threads : raise_error(t)
    \/ \E t \in Threads : ensure_initialized_lock(t)
    \/ \E t \in Threads : ensure_initialized_loop(t)
    \/ \E t \in Threads : create_connection_append(t)
    \/ \E t \in Threads : pool_get(t)
    \/ \E t \in Threads : close_connection_remove(t)
    \/ \E t \in Threads : get_connection_count(t)
    \/ \E t \in Threads : release_finally(t)
    \/ \E t \in Threads : release_put(t)
    \/ \E t \in Threads : close_mark(t)
    \/ \E t \in Threads : close_all(t)
    \/ PoolTick

PoolSpec == PoolInit /\ [][PoolNext]_vars

----------------------------------------------------------------------------
\* The cache on its own: the pool stays as constructed

CacheInit ==
    /\ PoolInit
    /\ config = OnePoolConfig

CacheNext ==
    \/ \E p \in KeyParts :
         cache_get(p.question, p.user_id, p.agent_type, p.kwargs)
    \/ \E p \in KeyParts, ttl \in Ttls :
         cache_set(p.question, calls + 1, p.user_id, p.agent_type, ttl, p.kwargs)
    \/ \E p \in InvalidateParts :
         cache_invalidate(p.question, p.user_id, p.agent_type, p.kwargs)
    \/ CacheTick

CacheSpec == CacheInit /\ [][CacheNext]_vars

\* Callers of different identities, modes and further arguments: the key
\* parts they pass.  The response a caller stores is the number of its key
\* parts in this list.
ContextParts ==
    << [question |-> <<"Q">>,      user_id |-> 7,    agent_type |-> "sql",
        kwargs |-> NoKwargs],
       [question |-> <<" ", "q">>, user_id |-> 7,    agent_type |-> "sql",
        kwargs |-> NoKwargs],
       [question |-> <<"q">>,      user_id |-> None, agent_type |-> "sql",
        kwargs |-> NoKwargs],
       [question |-> <<"q">>,      user_id |-> 7,    agent_type |-> "tool",
        kwargs |-> NoKwargs],
       [question |-> <<"q">>,      user_id |-> 7,    agent_type |-> "sql",
        kwargs |-> {<<"lang", "en">>}],
       [question |-> <<"r">>,      user_id |-> 7,    agent_type |-> "sql",
        kwargs |-> NoKwargs] >>

CacheKeyNext ==
    \/ \E i \in DOMAIN ContextParts :
         cache_get(ContextParts[i].question, ContextParts[i].user_id,
                   ContextParts[i].agent_type, ContextParts[i].kwargs)
    \/ \E i \in DOMAIN ContextParts :
         cache_set(ContextParts[i].question, i, ContextParts[i].user_id,
                   ContextParts[i].agent_type, NoTtl, ContextParts[i].kwargs)
    \/ CacheTick

CacheKeySpec == CacheInit /\ [][CacheKeyNext]_vars

----------------------------------------------------------------------------
\* get, set and invalidate called by several threads.  ResponseCache has no
\* lock: a thread can be preempted between any two statements.  Each action
\* below runs a stretch of one call without preemption; the stretches end
\* where the claim's cases need another thread to step in.

IdleCacheThread(t) ==
    /\ cache_pc' = [cache_pc EXCEPT ![t] = "idle"]
    /\ cache_key' = [cache_key EXCEPT ![t] = None]
    /\ cache_entry' = [cache_entry EXCEPT ![t] = NoEntry]
    /\ cache_new' = [cache_new EXCEPT ![t] = NoEntry]

\* get, lines 161-168: _cleanup_expired, key, entry = self._cache.get(key),
\* and the miss when there is no entry
cache_get_lookup(t, question, user_id, agent_type, kwargs) ==
    /\ cache_pc[t] = "idle"
    /\ calls < MaxCalls
    /\ calls' = calls + 1
    /\ LET c == cleanup_expired(CacheState)
           key == generate_key(question, user_id, agent_type, kwargs)
           i == IndexOf(c.cache, key)
       IN /\ cache' = c.cache
          /\ last_cleanup' = c.last_cleanup
          /\ IF i = 0
             THEN /\ stats' = [c.stats EXCEPT !.misses = @ + 1]
                  /\ IdleCacheThread(t)
             ELSE /\ stats' = c.stats
                  /\ cache_pc' = [cache_pc EXCEPT ![t] = "get_entry"]
                  /\ cache_key' = [cache_key EXCEPT ![t] = key]
                  /\ cache_entry' = [cache_entry EXCEPT ![t] = c.cache[i]]
                  /\ UNCHANGED cache_new
    /\ UNCHANGED <<now, last_call, stored, cache_failed>>
    /\ UNCHANGED exceptCache

\* get, lines 170-178: the entry found is tested; an expired one is deleted
\* from the dict (KeyError when the key is gone), a live one is returned
cache_get_entry(t) ==
    /\ cache_pc[t] = "get_entry"
    /\ LET key == cache_key[t]
           i == IndexOf(cache, key)
       IN IF is_expired(cache_entry[t], now)
          THEN IF i = 0
               THEN /\ cache_failed' = TRUE
                    /\ UNCHANGED <<cache, stats>>
               ELSE /\ cache' = DelAt(cache, i)
                    /\ stats' = [stats EXCEPT !.misses = @ + 1, !.evictions = @ + 1]
                    /\ UNCHANGED cache_failed
          ELSE /\ cache' = IF i # 0 /\ cache[i].value = cache_entry[t].value
                           THEN [cache EXCEPT ![i].hits = @ + 1] ELSE cache
               /\ stats' = [stats EXCEPT !.hits = @ + 1]
               /\ UNCHANGED cache_failed
    /\ IdleCacheThread(t)
    /\ UNCHANGED <<now, last_cleanup, calls, last_call, stored>>
    /\ UNCHANGED exceptCache

\* set, lines 203-206: _cleanup_expired, _evict_lru, key
cache_set_evict(t, question, value, user_id, agent_type, ttl, kwargs) ==
    /\ cache_pc[t] = "idle"
    /\ calls < MaxCalls
    /\ calls' = calls + 1
    /\ LET c == evict_lru(cleanup_expired(CacheState))
       IN /\ cache' = c.cache
          /\ stats' = c.stats
          /\ last_cleanup' = c.last_cleanup
    /\ cache_pc' = [cache_pc EXCEPT ![t] = "set_insert"]
    /\ cache_key' = [cache_key EXCEPT ![t] = generate_key(question, user_id, agent_type, kwargs)]
    /\ cache_new' = [cache_new EXCEPT ![t] = [value |-> value, ttl |-> ttl]]
    /\ UNCHANGED <<now, last_call, stored, cache_entry, cache_failed>>
    /\ UNCHANGED exceptCache

\* set, lines 207-214: the new entry is stored under the key
cache_set_insert(t) ==
    /\ cache_pc[t] = "set_insert"
    /\ LET entry == CacheEntry(cache_key[t], cache_new[t].value, now,
                               effective_ttl(cache_new[t].ttl))
           d == DictSet(cache, entry)
       IN /\ cache' = d
          /\ stats' = [stats EXCEPT !.total_entries = Len(d)]
    /\ IdleCacheThread(t)
    /\ UNCHANGED <<now, last_cleanup, calls, last_call, stored, cache_failed>>
    /\ UNCHANGED exceptCache

\* invalidate, lines 231-247: clearing everything, or the test `key in self._cache`
cache_invalidate_test(t, question, user_id, agent_type, kwargs) ==
    /\ cache_pc[t] = "idle"
    /\ calls < MaxCalls
    /\ calls' = calls + 1
    /\ IF question = NoQuestion /\ user_id = None /\ agent_type = NoAgent /\ kwargs = NoKwargs
       THEN /\ cache' = <<>>
            /\ stats' = [stats EXCEPT !.evictions = @ + Len(cache),
                                      !.total_entries = 0]
            /\ IdleCacheThread(t)
       ELSE LET key == generate_key(IF question = NoQuestion THEN <<>> ELSE question,
                                    user_id, agent_type, kwargs)
            IN /\ IF IndexOf(cache, key) # 0
                  THEN /\ cache_pc' = [cache_pc EXCEPT ![t] = "invalidate_del"]
                       /\ cache_key' = [cache_key EXCEPT ![t] = key]
                       /\ UNCHANGED <<cache_entry, cache_new>>
                  ELSE IdleCacheThread(t)
               /\ UNCHANGED <<cache, stats>>
    /\ UNCHANGED <<now, last_cleanup, last_call, stored, cache_failed>>
    /\ UNCHANGED exceptCache

\* invalidate, lines 248-251: del self._cache[key] (KeyError when the key is gone)
cache_invalidate_del(t) ==
    /\ cache_pc[t] = "invalidate_del"
    /\ LET i == IndexOf(cache, cache_key[t])
       IN IF i = 0
          THEN /\ cache_failed' = TRUE
               /\ UNCHANGED <<cache, stats>>
          ELSE /\ cache' = DelAt(cache, i)
               /\ stats' = [stats EXCEPT !.evictions = @ + 1,
                                         !.total_entries = Len(cache) - 1]
               /\ UNCHANGED cache_failed
    /\ IdleCacheThread(t)
    /\ UNCHANGED <<now, last_cleanup, calls, last_call, stored>>
    /\ UNCHANGED exceptCache

\* Time passes, also while calls are under way
CacheThreadsTick ==
    /\ now < MaxCacheTime
    /\ now' = now + 1
    /\ UNCHANGED <<cacheVars, cacheThreadVars>>
    /\ UNCHANGED exceptCache

CacheThreadsNext ==
    \/ \E t \in Threads, p \in KeyParts :
         cache_get_lookup(t, p.question, p.user_id, p.agent_type, p.kwargs)
    \/ \E t \in Threads : cache_get_entry(t)
    \/ \E t \in Threads, p \in KeyParts, ttl \in Ttls :
         cache_set_evict(t, p.question, calls + 1, p.user_id, p.agent_type, ttl, p.kwargs)
    \/ \E t \in Threads : cache_set_insert(t)
    \/ \E t \in Threads, p \in InvalidateParts :
         cache_invalidate_test(t, p.question, p.user_id, p.agent_type, p.kwargs)
    \/ \E t \in Threads : cache_invalidate_del(t)
    \/ CacheThreadsTick

CacheThreadsSpec == CacheInit /\ [][CacheThreadsNext]_vars

----------------------------------------------------------------------------
\* The schema discovery on its own

SchemaInit ==
    /\ now = 0
    /\ config = OnePoolConfig
    /\ PoolConstructed
    /\ CacheConstructed
    /\ limits = DefaultLimits
    /\ LimiterConstructed
    /\ cache_ttl \in {0, SchemaTtl}
    /\ connector_instance \in Connectors
    /\ SchemaConstructed
    /\ RouteConstructed

SchemaNext ==
    \/ \E t \in Threads, force_refresh \in BOOLEAN :
         get_schema_info_enter(t, connector_instance, force_refresh)
    \/ \E t \in Threads, ok \in BOOLEAN : discover_schema(t, ok)
    \/ \E t \in Threads, ok \in BOOLEAN : schema_install(t, ok)
    \/ invalidate_cache
    \/ SchemaChange
    \/ SchemaTick

SchemaSpec == SchemaInit /\ [][SchemaNext]_vars

\* One SchemaDiscovery called with different connectors
SchemaConnectorsNext ==
    \/ \E t \in Threads, force_refresh \in BOOLEAN :
         get_schema_info_enter(t, connector_instance, force_refresh)
    \/ \E t \in Threads, ok \in BOOLEAN : discover_schema(t, ok)
    \/ \E t \in Threads, ok \in BOOLEAN : schema_install(t, ok)
    \/ \E connector \in Connectors : use_connector(connector)
    \/ SchemaTick

SchemaConnectorsSpec == SchemaInit /\ [][SchemaConnectorsNext]_vars

----------------------------------------------------------------------------
\* The rate limiter on its own, called by one thread at a time

LimiterInit ==
    /\ now = 0
    /\ config = OnePoolConfig
    /\ PoolConstructed
    /\ CacheConstructed
    /\ limits \in RateLimitConfigs
    /\ LimiterConstructed
    /\ cache_ttl = SchemaTtl
    /\ connector_instance = SQLiteConnector
    /\ SchemaConstructed
    /\ RouteConstructed

LimiterNext ==
    \/ \E u \in UserIds : check_limit(u)
    \/ \E d \in Delays : LimiterTick(d)

LimiterSpec == LimiterInit /\ [][LimiterNext]_vars

\* Time that passes between two calls: the burst window, or more than the
\* minute window
StatusDelays == {BurstWindow, MinuteWindow + 1}

\* check_limit and get_user_status calls on one RateLimiter
LimiterStatusNext ==
    \/ \E u \in UserIds : check_limit(u)
    \/ \E u \in UserIds : get_user_status(u)
    \/ \E d \in StatusDelays : LimiterTick(d)

LimiterStatusSpec == LimiterInit /\ [][LimiterStatusNext]_vars

\* Time that passes between two calls: more than the cleanup interval, or
\* the hour window
SweepDelays == {MinuteWindow + 1, HourWindow}

\* check_limit and get_user_status calls with sweeps between them
LimiterSweepNext ==
    \/ \E u \in UserIds : check_limit(u)
    \/ \E u \in UserIds : get_user_status(u)
    \/ \E d \in SweepDelays : LimiterTick(d)

LimiterSweepSpec == LimiterInit /\ [][LimiterSweepNext]_vars

\* user_id of check_limit is Optional[int] (line 78): None, or any integer
\* the caller supplies
SuppliedUserIds == {7, -1, None}

\* check_limit calls for every kind of identity on one RateLimiter
LimiterIdentityNext ==
    \/ \E u \in SuppliedUserIds : check_limit(u)
    \/ \E d \in StatusDelays : LimiterTick(d)

LimiterIdentitySpec == LimiterInit /\ [][LimiterIdentityNext]_vars

\* The rate limiter with a configuration that has a limit of 0
LimiterZeroInit ==
    /\ now = 0
    /\ config = OnePoolConfig
    /\ PoolConstructed
    /\ CacheConstructed
    /\ limits \in ZeroLimitConfigs
    /\ LimiterConstructed
    /\ cache_ttl = SchemaTtl
    /\ connector_instance = SQLiteConnector
    /\ SchemaConstructed
    /\ RouteConstructed

LimiterZeroSpec == LimiterZeroInit /\ [][LimiterNext]_vars

\* A route wrapped by rate_limit, on the global rate limiter
RouteInit ==
    /\ now = 0
    /\ config = OnePoolConfig
    /\ PoolConstructed
    /\ CacheConstructed
    /\ limits = DefaultLimits
    /\ LimiterConstructed
    /\ cache_ttl = SchemaTtl
    /\ connector_instance = SQLiteConnector
    /\ SchemaConstructed
    /\ RouteConstructed

RouteNext ==
    \/ \E t \in Threads, u \in RouteUsers : decorated_function(t, u)
    \/ \E t \in Threads, status \in HandlerStatuses : handler_returns(t, status)
    \/ \E d \in RouteDelays : LimiterTick(d)

RouteSpec == RouteInit /\ [][RouteNext]_vars

----------------------------------------------------------------------------
\* Properties of the response cache

\* C7: get never returns the value of an entry for which
\* now > created_at + ttl; such an entry yields a miss.
C7_NeverReturnsExpired ==
    (last_call.op = "get" /\ last_call.hit) =>
        stored[last_call.key].state # "outlived"

\* C7 witness: a get of a key that was set more than ttl ago returns a miss
C7_Witness ==
    /\ last_call.op = "get"
    /\ ~last_call.hit
    /\ stored[last_call.key].state = "outlived"

\* C8: after set(k, v, ttl=t) with no later set, invalidate or capacity
\* eviction of k, a get(k) less than t after the set is a hit returning v and
\* a get(k) more than t after the set is a miss, for explicit t >= 0 and for
\* the default ttl.
C8_TtlCorrect ==
    last_call.op = "get" =>
        LET s == stored[last_call.key] IN
        /\ (s.state = "live" /\ now < s.until) =>
               (last_call.hit /\ last_call.value = s.value)
        /\ s.state = "outlived" => (~last_call.hit /\ last_call.value = Miss)

\* C8 witness: a get less than t after the latest of two sets of the key
\* returns the value of that set
C8_Witness ==
    /\ last_call.op = "get"
    /\ last_call.hit
    /\ last_call.value = 2
    /\ stored[last_call.key].state = "live"
    /\ now < stored[last_call.key].until

\* C9: after any sequence of set, get and invalidate calls the number of
\* resident entries is at most max_entries.
C9_CapacityBound == Len(cache) <= MaxEntries

\* C9 witness: the cache is full after a set that found it full
C9_Witness ==
    /\ last_call.op = "set"
    /\ Len(cache) = MaxEntries
    /\ stats.evictions >= 1

----------------------------------------------------------------------------
\* Properties of the connection pool

\* A thread is inside a checkout: the connection was yielded to it and its
\* with-body has not ended yet
CheckedOut(t) == pc[t] = "yield"

\* C1: under any interleaving of get_connection, release and close, no
\* connection is checked out by two threads at the same time.
C1_Exclusive ==
    \A t, u \in Threads :
        (t # u /\ CheckedOut(t) /\ CheckedOut(u)) => pooled[t] # pooled[u]

\* C1 witness: two checkouts overlap, one of them on a connection that went
\* through the idle queue
C1_Witness ==
    \E t, u \in Threads :
        /\ t # u /\ CheckedOut(t) /\ CheckedOut(u)
        /\ conns[pooled[t]].last_validated_at < now
        /\ Len(all_connections) <= config.max_size

\* C2: in_use + available, as get_stats reports them, never exceeds max_size.
C2_PoolSizeBound ==
    get_stats.in_use + get_stats.available <= config.max_size

\* C3: every get_connection call eventually yields or raises; the first
\* acquire on a fresh pool completes the warm-up.  A thread that waits for
\* self._lock while it is itself the owner of self._lock never continues,
\* so the claim requires that no thread ever gets there.
C3_AcquireNeverBlocksForever ==
    \A t \in Threads :
        ~(pc[t] \in {"ei_lock", "create_lock", "close_lock", "count", "close_all"}
          /\ lock = t)

\* C4: against an exhausted pool with nothing released, get_connection
\* raises the timeout error not before acquire_timeout and not after
\* acquire_timeout (plus an epsilon below the clock's resolution).
C4_TimeoutHonesty ==
    \A t \in Threads :
        (pc[t] = "raise_timeout" /\ exhausted[t]) =>
            /\ 2 * (now - start_time[t]) >= config.acquire_timeout
            /\ 2 * (now - start_time[t]) <= config.acquire_timeout

\* C5: a get_connection call that starts after close() was called fails with
\* the pool-closed error: it never reaches the warm-up, the acquire loop or
\* a checkout.
C5_ClosedFailsImmediately ==
    \A t \in Threads :
        call_closed[t] => pc[t] = "raise_closed"

\* C5 witness: a call that began after close() raises the pool-closed error
\* while a connection is still in the idle queue
C5_Witness ==
    \E t \in Threads :
        pc[t] = "raise_closed" /\ call_closed[t] /\ pool # <<>>

\* C6: once close() has returned and every checkout has been released, no
\* connection created by the pool is still open or still tracked.
C6_NothingSurvivesClose ==
    (closed /\ \A t \in Threads : pc[t] = "idle") =>
        /\ all_connections = <<>>
        /\ \A c \in ConnIds : conns[c].state # "open"

----------------------------------------------------------------------------
\* check_limit called by several threads.  RateLimiter has no lock: a thread
\* can be preempted between any two statements.  The three comprehensions of
\* _cleanup_old_requests (lines 62-64) each read a list and then rebind the
\* attribute; the tests (101-121) and the appends (131-133) follow.

\* The statements of _cleanup_old_requests in order: position, attribute, window
PruneSteps ==
    <<[read |-> "m_read", write |-> "m_write", attr |-> "minute_requests",
       window |-> MinuteWindow],
      [read |-> "h_read", write |-> "h_write", attr |-> "hour_requests",
       window |-> HourWindow],
      [read |-> "b_read", write |-> "b_write", attr |-> "burst_requests",
       window |-> BurstWindow]>>

\* Lines 90-95: current_time, _maybe_global_cleanup, user_data = self.user_data[key]
limiter_enter(t, user_id) ==
    /\ lim_pc[t] = "idle"
    /\ checks < MaxChecks
    /\ checks' = checks + 1
    /\ LET swept == global_cleanup(user_data, limiter_cleanup)
           key == limiter_key(user_id)
       IN /\ user_data' = [k \in DOMAIN swept.user_data \cup {key} |->
                             IF k \in DOMAIN swept.user_data
                             THEN swept.user_data[k] ELSE NewUserRateData]
          /\ limiter_cleanup' = swept.last_cleanup
          /\ lim_key' = [lim_key EXCEPT ![t] = key]
    /\ lim_time' = [lim_time EXCEPT ![t] = now]
    /\ lim_pc' = [lim_pc EXCEPT ![t] = PruneSteps[1].read]
    /\ UNCHANGED <<now, limits, ticks, last_result, allowed_log, anonymous_log, lim_list>>
    /\ UNCHANGED exceptLimiter

\* Lines 62-64, right-hand side: [t for t in requests if t > horizon]
limiter_prune_read(t) ==
    \E i \in 1..Len(PruneSteps) :
        /\ lim_pc[t] = PruneSteps[i].read
        /\ lim_list' = [lim_list EXCEPT ![t] =
                          After(user_data[lim_key[t]][PruneSteps[i].attr],
                                lim_time[t] - PruneSteps[i].window)]
        /\ lim_pc' = [lim_pc EXCEPT ![t] = PruneSteps[i].write]
        /\ UNCHANGED <<now, limits, user_data, limiter_cleanup, checks, ticks,
                       last_result, allowed_log, anonymous_log, lim_key, lim_time>>
        /\ UNCHANGED exceptLimiter

\* Lines 62-64, assignment: the attribute is rebound to the new list
limiter_prune_write(t) ==
    \E i \in 1..Len(PruneSteps) :
        /\ lim_pc[t] = PruneSteps[i].write
        /\ user_data' = [user_data EXCEPT ![lim_key[t]][PruneSteps[i].attr] = lim_list[t]]
        /\ lim_list' = [lim_list EXCEPT ![t] = <<>>]
        /\ lim_pc' = [lim_pc EXCEPT ![t] =
                        IF i < Len(PruneSteps) THEN PruneSteps[i + 1].read ELSE "check"]
        /\ UNCHANGED <<now, limits, limiter_cleanup, checks, ticks,
                       last_result, allowed_log, anonymous_log, lim_key, lim_time>>
        /\ UNCHANGED exceptLimiter

\* Lines 100-128: the three tests; a rejection returns
limiter_check(t) ==
    /\ lim_pc[t] = "check"
    /\ LET key == lim_key[t]
           data == user_data[key]
           tier == first_violated(data, limits)
       IN IF tier = "none"
          THEN /\ lim_pc' = [lim_pc EXCEPT ![t] = "record"]
               /\ UNCHANGED <<last_result, lim_key, lim_time>>
          ELSE /\ lim_pc' = [lim_pc EXCEPT ![t] = "idle"]
               /\ last_result' = [last_result EXCEPT ![key] =
                                    limit_result(data, tier, lim_time[t], limits, @)]
               /\ lim_key' = [lim_key EXCEPT ![t] = None]
               /\ lim_time' = [lim_time EXCEPT ![t] = 0]
    /\ UNCHANGED <<now, limits, user_data, limiter_cleanup, checks, ticks,
                   allowed_log, anonymous_log, lim_list>>
    /\ UNCHANGED exceptLimiter

\* Lines 131-140: the three appends; the call returns allowed
limiter_record(t) ==
    /\ lim_pc[t] = "record"
    /\ LET key == lim_key[t] IN
       /\ user_data' = [user_data EXCEPT ![key] = record_request(@, lim_time[t])]
       /\ allowed_log' = [allowed_log EXCEPT ![key] = Append(@, lim_time[t])]
       /\ UNCHANGED anonymous_log    \* the threads call with SharedUserId
       /\ last_result' = [last_result EXCEPT ![key] =
                            limit_result(user_data'[key], "none", lim_time[t], limits, @)]
    /\ lim_pc' = [lim_pc EXCEPT ![t] = "idle"]
    /\ lim_key' = [lim_key EXCEPT ![t] = None]
    /\ lim_time' = [lim_time EXCEPT ![t] = 0]
    /\ UNCHANGED <<now, limits, limiter_cleanup, checks, ticks, lim_list>>
    /\ UNCHANGED exceptLimiter

\* Time passes, also while calls are under way
LimiterThreadsTick(d) ==
    /\ ticks < MaxTicks
    /\ ticks' = ticks + 1
    /\ now' = now + d
    /\ UNCHANGED <<limits, user_data, limiter_cleanup, checks, last_result, allowed_log, anonymous_log>>
    /\ UNCHANGED <<exceptLimiter, limiterThreadVars>>

\* The threads call for one and the same identity
SharedUserId == 7

LimiterThreadsNext ==
    \/ \E t \in Threads : limiter_enter(t, SharedUserId)
    \/ \E t \in Threads : limiter_prune_read(t)
    \/ \E t \in Threads : limiter_prune_write(t)
    \/ \E t \in Threads : limiter_check(t)
    \/ \E t \in Threads : limiter_record(t)
    \/ \E d \in {1, BurstWindow} : LimiterThreadsTick(d)

LimiterThreadsSpec == LimiterInit /\ [][LimiterThreadsNext]_vars

----------------------------------------------------------------------------
\* Claims about the rate limiter

\* Number of allowed calls of a log with timestamps in the window (T - W, T]
InWindow(log, T, W) ==
    Cardinality({i \in 1..Len(log) : log[i] > T - W /\ log[i] <= T})

\* Ends of the trailing windows that matter: every allowed call, and now
WindowEnds(log) == {log[i] : i \in 1..Len(log)} \cup {now}

\* C11: for one identity and sequential check_limit calls, the allowed calls
\* in any trailing 60 s window never exceed requests_per_minute (likewise
\* burst_limit per 10 s and requests_per_hour per 3600 s); a call is rejected
\* only when one of its windows already holds its limit, and a rejection by
\* the minute tier carries retry_after > 0.
C11_WindowBound ==
    \A k \in LimiterKeys :
        /\ \A T \in WindowEnds(allowed_log[k]) :
              /\ InWindow(allowed_log[k], T, BurstWindow) <= limits.burst_limit
              /\ InWindow(allowed_log[k], T, MinuteWindow) <= limits.requests_per_minute
              /\ InWindow(allowed_log[k], T, HourWindow) <= limits.requests_per_hour
        /\ ~last_result[k].allowed =>
              \/ InWindow(allowed_log[k], last_result[k].at, BurstWindow)
                    >= limits.burst_limit
              \/ InWindow(allowed_log[k], last_result[k].at, MinuteWindow)
                    >= limits.requests_per_minute
              \/ InWindow(allowed_log[k], last_result[k].at, HourWindow)
                    >= limits.requests_per_hour
        /\ last_result[k].limit_type = "minute" => last_result[k].retry_after > 0

\* C11 witness: requests_per_minute = 3, three calls allowed, the fourth
\* rejected by the minute tier
C11_Witness ==
    /\ limits.requests_per_minute = 3
    /\ Len(allowed_log[7]) = 3
    /\ ~last_result[7].allowed
    /\ last_result[7].limit_type = "minute"
    /\ last_result[7].retry_after > 0

\* The first tier, in the order burst, minute, hour, whose window holds its
\* limit at time T according to the log of allowed calls
FirstFullTier(log, T) ==
    IF InWindow(log, T, BurstWindow) >= limits.burst_limit THEN "burst"
    ELSE IF InWindow(log, T, MinuteWindow) >= limits.requests_per_minute THEN "minute"
    ELSE IF InWindow(log, T, HourWindow) >= limits.requests_per_hour THEN "hour"
    ELSE "none"

\* C12: a rejected check_limit call names the first violated tier in the
\* order burst, minute, hour.
C12_TierPrecedence ==
    \A k \in LimiterKeys :
        ~last_result[k].allowed =>
            last_result[k].limit_type = FirstFullTier(allowed_log[k], last_result[k].at)

\* C12 witness: a rejection named "burst" while the minute and the hour
\* windows hold their limits too
C12_Witness ==
    \E k \in LimiterKeys :
        /\ ~last_result[k].allowed
        /\ last_result[k].limit_type = "burst"
        /\ InWindow(allowed_log[k], last_result[k].at, MinuteWindow)
              >= limits.requests_per_minute
        /\ InWindow(allowed_log[k], last_result[k].at, HourWindow)
              >= limits.requests_per_hour

\* The identity's latest call came more than 60 s after its call before,
\* which the minute tier had rejected
AfterMinuteRejection(k) ==
    /\ last_result[k].prev_type = "minute"
    /\ last_result[k].at - last_result[k].prev_at > MinuteWindow

\* C13 as claimed: after a rejection by the minute tier, the identity's next
\* call, made more than 60 s later, is allowed.
C13_AllowedAfterMinute ==
    \A k \in LimiterKeys :
        AfterMinuteRejection(k) => last_result[k].allowed

\* C13 amended: after a rejection by the minute tier, the identity's next
\* call, made more than 60 s later, is rejected by neither the burst nor the
\* minute tier: it is allowed unless the hour window still holds
\* requests_per_hour allowed calls, and is then rejected with "hour".
C13_NotMinuteAgain ==
    \A k \in LimiterKeys :
        AfterMinuteRejection(k) =>
            /\ last_result[k].limit_type \in {"none", "hour"}
            /\ ~last_result[k].allowed =>
                  InWindow(allowed_log[k], last_result[k].at, HourWindow)
                     >= limits.requests_per_hour

\* C13 witness: the call after the minute rejection is allowed
C13_Witness ==
    \E k \in LimiterKeys : AfterMinuteRejection(k) /\ last_result[k].allowed

\* Occurrences of x in a list
Occurrences(list, x) == Cardinality({i \in 1..Len(list) : list[i] = x})

\* C14: with several threads in check_limit for one identity, the allowed
\* calls in any trailing window never exceed the window's limit, and no
\* allowed call's timestamp is lost: while no call is under way, every
\* allowed call of the last 10 s is in each of the identity's three lists.
C14_AtomicChecks ==
    \A k \in LimiterKeys :
        /\ \A T \in WindowEnds(allowed_log[k]) :
              /\ InWindow(allowed_log[k], T, BurstWindow) <= limits.burst_limit
              /\ InWindow(allowed_log[k], T, MinuteWindow) <= limits.requests_per_minute
              /\ InWindow(allowed_log[k], T, HourWindow) <= limits.requests_per_hour
        /\ (\A t \in Threads : lim_pc[t] = "idle") =>
              \A i \in 1..Len(allowed_log[k]) :
                  LET ts == allowed_log[k][i] IN
                  ts > now - BurstWindow =>
                      \A attr \in {"minute_requests", "hour_requests", "burst_requests"} :
                          Occurrences(user_data[k][attr], ts)
                             = Occurrences(allowed_log[k], ts)

----------------------------------------------------------------------------
\* Claims about the cache under threads

\* C15: with several threads in get, set and invalidate, no call fails
\* because another thread added or removed an entry in the middle of it, and
\* the cache never holds more than max_entries entries.
C15_AtomicCalls ==
    /\ ~cache_failed
    /\ Len(cache) <= MaxEntries

----------------------------------------------------------------------------
\* Claims about the schema discovery

\* Thread t's call ends in this step after discovery failed
DiscoveryFailed(t) ==
    /\ sd_pc[t] \in {"discover", "install"}
    /\ sd_pc'[t] = "idle"
    /\ schema_result'.kind # "fresh"

FallbackKinds == {"sqlite_fallback", "databricks_fallback"}

\* C16: a get_schema_info call whose discovery fails returns the static
\* fallback text and leaves the cache entry as it was; the cache never holds
\* a fallback text.
C16_FallbackLeavesCache ==
    [][\A t \in Threads :
         DiscoveryFailed(t) =>
             /\ schema_result'.kind = "fallback"
             /\ schema_result'.text.kind \in FallbackKinds
             /\ schema_cache' = schema_cache
             /\ schema_cache'.schema_info.kind \notin FallbackKinds]_vars

\* C17: get_schema_info never raises to its caller.
C17_NeverRaises == schema_result.kind # "raised"

\* A get_schema_info call begins in this step; it goes on to discovery
CallBegins == schema_calls' = schema_calls + 1
Discovers == \E t \in Threads : sd_pc[t] = "idle" /\ sd_pc'[t] = "discover"
BeginsForced == schema_force'

C19_WholeEntries ==
    /\ [](schema_cache = last_discovery)
    /\ [][(CallBegins /\ ~Discovers) =>
            /\ last_discovery # NoSchemaCache
            /\ schema_result'.text = last_discovery.schema_info
            /\ schema_result'.text.kind \in {"sqlite", "databricks"}]_vars

\* C19 witness: a refresher stored the text of the changed database at a
\* later time while another thread still holds the text it discovered before
\* the change and is about to store it
C19_Witness ==
    /\ schema_result.kind = "fresh"
    /\ schema_cache.cached_at > 0
    /\ schema_cache.schema_info.version > 0
    /\ \E t \in Threads : sd_pc[t] = "install" /\ sd_text[t].version = 0

----------------------------------------------------------------------------
\* Claims about the states of a pooled connection

\* c is in the idle queue; c is yielded to a caller; c's underlying connection
\* is closed and c is off the pool's list
IdleInPool(c) == c \in Range(pool)
YieldedTo(c) == {t \in Threads : CheckedOut(t) /\ pooled[t] = c}
Destroyed(c) == conns[c].state = "closed" /\ c \notin Range(all_connections)

\* C20: a pooled connection is never both idle and checked out, is never
\* checked out by two callers, and a destroyed connection is neither in the
\* idle queue nor handed to a caller, also after close() and after a failed
\* validation.
C20_ConnectionStates ==
    \A c \in ConnIds :
        /\ ~(IdleInPool(c) /\ YieldedTo(c) # {})
        /\ Cardinality(YieldedTo(c)) <= 1
        /\ Destroyed(c) => (~IdleInPool(c) /\ YieldedTo(c) = {})

----------------------------------------------------------------------------
\* Claims about the errors of get_connection

\* Thread t's get_connection call, or its close(), ends in this step
CallEnds(t) == pc[t] # "idle" /\ pc'[t] = "idle"

\* The positions a call ends from without an error: the end of the finally
\* block (lines 225-234) and the end of close()
NormalEnds == {"yield", "put", "close_lock", "close_all"}

\* c has been unused for longer than idle_timeout
IdleTooLong(c) == now - conns[c].last_used_at > config.idle_timeout

\* C26: get_connection never hands out an idle connection that has been
\* unused for longer than idle_timeout: taking one from the queue closes it
\* and sends it to removal from the pool's list.
C26_StaleIdleClosed ==
    [][\A t \in Threads :
          (pc[t] = "get" /\ pool # <<>> /\ pc'[t] # "get"
             /\ IdleTooLong(queue_get(pool).item)) =>
          /\ pc'[t] = "close_lock"
          /\ conns'[queue_get(pool).item].state = "closed"]_vars

\* C21: a get_connection call that ends with an error ends with one of the
\* two DatabaseConnectionErrors (pool closed, lines 181-182; not acquired
\* within the timeout, lines 217-220), and the second only once acquire_timeout
\* has passed: a failed creation or probe never ends the call.
C21_OnlyConnectionError ==
    /\ [][\A t \in Threads :
            (CallEnds(t) /\ pc[t] \notin NormalEnds) =>
                pc[t] \in {"raise_closed", "raise_timeout"}]_vars
    /\ [](\A t \in Threads :
            pc[t] = "raise_timeout" =>
                2 * (now - start_time[t]) >= config.acquire_timeout)

\* C21 witness: warm-up created nothing although min_size asks for a
\* connection, no connection was created on demand, and the call is about to
\* raise the timeout error
C21_Witness ==
    \E t \in Threads :
        /\ pc[t] = "raise_timeout"
        /\ initialized /\ ~closed
        /\ config.min_size > 0
        /\ all_connections = <<>>

----------------------------------------------------------------------------
\* Claims about what check_limit returns

\* C22: for every configuration with non-negative limits, a limit of 0
\* included, check_limit raises nothing: a rejected request is returned as
\* (False, info) with retry_after and limit_type.
C22_RejectionIsReturned ==
    \A k \in LimiterKeys :
        /\ last_result[k].error = "none"
        /\ ~last_result[k].allowed =>
              last_result[k].limit_type \in {"burst", "minute", "hour"}

\* C23: an identity that made an allowed request and then stopped calling is
\* removed from user_data by the periodic cleanup: once a sweep has run more
\* than an hour after the identity's latest call, its entry is gone.
C23_IdleIdentityCollected ==
    \A k \in LimiterKeys :
        ( /\ allowed_log[k] # <<>>
          /\ last_result[k].at + HourWindow < limiter_cleanup )
        => k \notin DOMAIN user_data

\* C24: all calls made with identity None are counted on one record, and
\* nothing else is: an allowed anonymous call returns, for each tier, the
\* limit less the number of allowed anonymous calls in the tier's window,
\* this call included.
C24_AnonymousShareOneRecord ==
    LET k == limiter_key(None) IN
    (anonymous_log # <<>> /\ last_result[k].allowed) =>
        /\ k \in DOMAIN user_data
        /\ last_result[k].remaining.burst =
             limits.burst_limit - InWindow(anonymous_log, last_result[k].at, BurstWindow)
        /\ last_result[k].remaining.minute =
             limits.requests_per_minute
               - InWindow(anonymous_log, last_result[k].at, MinuteWindow)
        /\ last_result[k].remaining.hour =
             limits.requests_per_hour - InWindow(anonymous_log, last_result[k].at, HourWindow)

\* C24 witness: the second anonymous call inside one burst window was
\* allowed and saw the budget reduced by two, while user 7 made allowed calls
\* of its own
C24_Witness ==
    LET k == limiter_key(None) IN
    /\ Len(anonymous_log) = 2
    /\ last_result[k].allowed
    /\ last_result[k].remaining.burst = limits.burst_limit - 2
    /\ allowed_log[7] # <<>>

----------------------------------------------------------------------------
\* Claims about invalidate

\* This step is an invalidate call
Invalidates == calls' = calls + 1 /\ last_call'.op = "invalidate"

\* The entries of d that are not stored under key, in order
Without(d, key) ==
    LET Other(entry) == entry.key # key IN SelectSeq(d, Other)

ValidatedWithin(c) ==
    now - conns[c].last_validated_at < config.validation_interval

\* C28: get_connection yields a connection taken from the idle queue only if
\* it was validated or created less than validation_interval ago or its probe
\* has just succeeded; a connection whose probe fails is closed and not
\* yielded, then removed from the pool's list, and the loop test follows.
C28_ValidatedBeforeHandOut ==
    [][\A t \in Threads :
          /\ (pc[t] = "get" /\ pool # <<>> /\ pc'[t] = "yield") =>
                \/ ValidatedWithin(queue_get(pool).item)
                \/ /\ conns[queue_get(pool).item].state = "open"
                   /\ conns'[queue_get(pool).item].last_validated_at = now
          /\ (pc[t] = "get" /\ pool # <<>> /\ pc'[t] \notin {"get", "yield"}) =>
                /\ ~ValidatedWithin(queue_get(pool).item)
                /\ conns'[queue_get(pool).item].state = "closed"
                /\ pc'[t] = "close_lock"
                /\ ret'[t] = "loop"
                /\ pooled'[t] = queue_get(pool).item
          /\ (pc[t] = "close_lock" /\ ret[t] = "loop" /\ pc'[t] # "close_lock") =>
                /\ pooled[t] \notin Range(all_connections')
                /\ pooled[t] \notin Range(pool')
                /\ conns'[pooled[t]].state = "closed"
                /\ pooled'[t] = None
                /\ pc'[t] \in {"get", "raise_timeout"}]_vars

\* A probe has failed: the connection is closed and about to be removed
C28_Witness ==
    \E t \in Threads :
        /\ pc[t] = "close_lock"
        /\ ret[t] = "loop"
        /\ conns[pooled[t]].state = "closed"
        /\ pooled[t] \in Range(all_connections)

\* Claims about what a check_limit call records

\* The identity's record before the step, empty when it has none
RecordOf(k) == IF k \in DOMAIN user_data THEN user_data[k] ELSE NewUserRateData

\* The step is a check_limit call; it was allowed for identity k; it was
\* rejected
CheckStep == checks' = checks + 1
AllowedStep(k) == CheckStep /\ allowed_log'[k] # allowed_log[k]
RejectedStep == CheckStep /\ allowed_log' = allowed_log

\* The moment a rejection says the identity may call again
AdmittedAt(r) == r.at + r.retry_after

\* C29: an allowed check_limit call appends the current time to the burst,
\* minute and hour lists of its identity, each pruned to its window; a
\* rejected call appends nothing to any list of any identity, and a rejection
\* that follows a rejection by the same tier names the same moment of
\* admission.
C29_AllowedRecordsRejectedDoesNot ==
    [][\A k \in LimiterKeys :
          /\ AllowedStep(k) =>
                /\ k \in DOMAIN user_data'
                /\ user_data'[k].burst_requests =
                     Append(After(RecordOf(k).burst_requests, now - BurstWindow), now)
                /\ user_data'[k].minute_requests =
                     Append(After(RecordOf(k).minute_requests, now - MinuteWindow), now)
                /\ user_data'[k].hour_requests =
                     Append(After(RecordOf(k).hour_requests, now - HourWindow), now)
          /\ (RejectedStep /\ k \in DOMAIN user_data') =>
                /\ user_data'[k].burst_requests \in
                     {RecordOf(k).burst_requests,
                      After(RecordOf(k).burst_requests, now - BurstWindow)}
                /\ user_data'[k].minute_requests \in
                     {RecordOf(k).minute_requests,
                      After(RecordOf(k).minute_requests, now - MinuteWindow)}
                /\ user_data'[k].hour_requests \in
                     {RecordOf(k).hour_requests,
                      After(RecordOf(k).hour_requests, now - HourWindow)}
          /\ (RejectedStep /\ ~last_result[k].allowed /\ ~last_result'[k].allowed
                /\ last_result'[k].limit_type = last_result[k].limit_type) =>
                AdmittedAt(last_result'[k]) = AdmittedAt(last_result[k])]_vars

\* An identity is rejected again, later, by the tier that rejected it before
C29_Witness ==
    \E k \in LimiterKeys :
        /\ ~last_result[k].allowed
        /\ last_result[k].prev_type = last_result[k].limit_type
        /\ last_result[k].prev_at < last_result[k].at
        /\ allowed_log[k] # <<>>

\* Claims about retry_after

\* The window and the limit of a tier
TierWindow(tier) ==
    IF tier = "burst" THEN BurstWindow
    ELSE IF tier = "minute" THEN MinuteWindow
    ELSE HourWindow
TierLimit(tier) ==
    IF tier = "burst" THEN limits.burst_limit
    ELSE IF tier = "minute" THEN limits.requests_per_minute
    ELSE limits.requests_per_hour

\* The oldest allowed call of the log that lies in the window ending at T
OldestInWindow(log, T, W) ==
    LET inside == {log[i] : i \in {j \in DOMAIN log : log[j] > T - W /\ log[j] <= T}}
    IN CHOOSE t \in inside : \A u \in inside : t <= u

\* C30: a rejection's retry_after is the time until the oldest allowed call
\* in the violated window leaves the window, and it is positive and at most
\* the window's length; when the rejection is returned, the violated list as
\* a call made retry_after later prunes it holds fewer timestamps than the
\* limit, and the identity's call made exactly retry_after after its latest
\* rejection is not rejected by that tier.
C30_RetryAfter ==
    /\ [](\A k \in LimiterKeys :
            ~last_result[k].allowed =>
               LET r == last_result[k]
                   W == TierWindow(r.limit_type)
               IN /\ r.retry_after =
                        OldestInWindow(allowed_log[k], r.at, W) + W - r.at
                  /\ 0 < r.retry_after
                  /\ r.retry_after <= W)
    /\ [][\A k \in LimiterKeys :
            /\ (RejectedStep /\ ~last_result'[k].allowed /\ last_result'[k].at = now) =>
                  LET r == last_result'[k] IN
                  Len(After(tier_requests(user_data'[k], r.limit_type),
                            AdmittedAt(r) - TierWindow(r.limit_type)))
                     < TierLimit(r.limit_type)
            /\ (CheckStep /\ ~last_result[k].allowed /\ AdmittedAt(last_result[k]) = now
                  /\ last_result'[k] # last_result[k]) =>
                  last_result'[k].limit_type # last_result[k].limit_type]_vars

\* An identity whose first call was allowed and whose next was rejected by
\* the burst tier at the same moment (retry_after = 10) has called again 10 s
\* later
C30_Witness ==
    \E k \in LimiterKeys :
        /\ last_result[k].prev_type = "burst"
        /\ allowed_log[k] # <<>>
        /\ allowed_log[k][1] = last_result[k].prev_at
        /\ last_result[k].at - last_result[k].prev_at = BurstWindow
        /\ last_result[k].limit_type # "burst"

\* Claims about a route wrapped by rate_limit

\* Number of requests whose handler is running or about to run
HandlersRunning == Cardinality({t \in Threads : rt_pc[t] = "handler"})

\* Number of check_limit calls that were allowed
RECURSIVE AllowedCalls(_)
AllowedCalls(keys) ==
    IF keys = {} THEN 0
    ELSE LET k == CHOOSE x \in keys : TRUE
         IN Len(allowed_log[k]) + AllowedCalls(keys \ {k})

\* The step is a request that the check rejected; that it allowed
RequestRejected == route_requests' # route_requests /\ allowed_log' = allowed_log
RequestAllowed == route_requests' # route_requests /\ allowed_log' # allowed_log

\* C27: a request that check_rate_limit rejects is answered with status 429,
\* retry_after, limit_type and a Retry-After header, and its handler is not
\* invoked; a request that is allowed gets no response before its handler
\* has run; the handler runs only for a request whose check was allowed and
\* is on record, so handlers run exactly once per allowed check.
C27_CheckBeforeHandler ==
    /\ [](handler_calls + HandlersRunning = AllowedCalls(LimiterKeys))
    /\ [][/\ RequestRejected =>
              /\ response'.status = TooManyRequests
              /\ response'.limit_type \in {"burst", "minute", "hour"}
              /\ \E k \in LimiterKeys :
                    /\ ~last_result'[k].allowed
                    /\ last_result'[k].at = now
                    /\ response'.retry_after = last_result'[k].retry_after
                    /\ response'.limit_type = last_result'[k].limit_type
              /\ response'.retry_after_header >= 0
              /\ handler_calls' = handler_calls
              /\ rt_pc' = rt_pc
          /\ RequestAllowed =>
              /\ handler_calls' = handler_calls
              /\ response' = response
              /\ \E t \in Threads : rt_pc[t] = "idle" /\ rt_pc'[t] = "handler"
          /\ handler_calls' # handler_calls =>
              \E t \in Threads :
                 /\ rt_pc[t] = "handler"
                 /\ rt_pc'[t] = "idle"
                 /\ rt_info[t].allowed
                 /\ \E i \in DOMAIN allowed_log[limiter_key(rt_user[t])] :
                       allowed_log[limiter_key(rt_user[t])][i] = rt_info[t].at
                 /\ now - rt_info[t].at < HourWindow =>
                       /\ limiter_key(rt_user[t]) \in DOMAIN user_data
                       /\ \E i \in DOMAIN user_data[limiter_key(rt_user[t])].hour_requests :
                             user_data[limiter_key(rt_user[t])].hour_requests[i]
                                = rt_info[t].at]_vars

\* Five requests were allowed and their handlers ran; the sixth was answered
\* 429 by the burst tier
C27_Witness ==
    /\ response.status = TooManyRequests
    /\ response.limit_type = "burst"
    /\ response.retry_after > 0
    /\ handler_calls + HandlersRunning = DefaultLimits.burst_limit

\* Claims about the consistency of an identity's lists

\* The list is in non-decreasing time order
NonDecreasing(list) == \A i \in 1..(Len(list) - 1) : list[i] <= list[i + 1]

\* Every timestamp of list a is in list b, as often
ContainedIn(a, b) == \A i \in 1..Len(a) : Occurrences(a, a[i]) <= Occurrences(b, a[i])

\* C31: every identity's burst, minute and hour lists are in non-decreasing
\* time order, the burst list is contained in the minute list and the minute
\* list in the hour list, and no list holds more entries than its limit.
C31_ListsConsistent ==
    \A k \in DOMAIN user_data :
        LET data == user_data[k] IN
        /\ NonDecreasing(data.burst_requests)
        /\ NonDecreasing(data.minute_requests)
        /\ NonDecreasing(data.hour_requests)
        /\ ContainedIn(data.burst_requests, data.minute_requests)
        /\ ContainedIn(data.minute_requests, data.hour_requests)
        /\ Len(data.burst_requests) <= limits.burst_limit
        /\ Len(data.minute_requests) <= limits.requests_per_minute
        /\ Len(data.hour_requests) <= limits.requests_per_hour

\* An identity's hour list holds more than its minute list, which holds
\* more than its burst list
C31_Witness ==
    \E k \in DOMAIN user_data :
        /\ Len(user_data[k].hour_requests) > Len(user_data[k].minute_requests)
        /\ Len(user_data[k].minute_requests) > Len(user_data[k].burst_requests)

\* Claims about the cache's counters

\* The step is a call made on the cache; it is a get call
CacheCallStep == calls' = calls + 1
GetStep == CacheCallStep /\ last_call'.op = "get"

\* The hit count of the entry stored under the key, 0 when there is none
EntryHits(d, key) == IF IndexOf(d, key) = 0 THEN 0 ELSE d[IndexOf(d, key)].hits

C33_TotalEntriesIsResident == stats.total_entries = Len(cache)

\* Claims about set on a resident key

\* The step is a set call on a key whose entry is resident and has not expired
SetResidentStep ==
    /\ CacheCallStep
    /\ last_call'.op = "set"
    /\ IndexOf(cache, last_call'.key) # 0
    /\ ~is_expired(cache[IndexOf(cache, last_call'.key)], now)

\* C34: a set call on a resident key leaves the entry of every other key
\* that has not expired as it is.
C34_OverwriteKeepsOthers ==
    [][SetResidentStep =>
          \A i \in 1..Len(cache) :
              (cache[i].key # last_call'.key /\ ~is_expired(cache[i], now)) =>
                  \E j \in 1..Len(cache') : cache'[j] = cache[i]]_vars

\* Claims about the cache key

\* The same user_id, agent_type and further arguments, and questions that
\* are equal after lower-casing and stripping
SameContext(p, q) ==
    /\ p.user_id = q.user_id
    /\ p.agent_type = q.agent_type
    /\ p.kwargs = q.kwargs
    /\ strip(lower(p.question)) = strip(lower(q.question))

\* C35: a get call that returns a value was made with key parts of the same
\* user_id, agent_type and further arguments as the set call that stored the
\* value, and with a question equal to its question after lower-casing and
\* stripping.
C35_HitOnlyForSameContext ==
    [][\A i \in DOMAIN ContextParts :
          (/\ cache_get(ContextParts[i].question, ContextParts[i].user_id,
                        ContextParts[i].agent_type, ContextParts[i].kwargs)
           /\ last_call'.hit) =>
              SameContext(ContextParts[i], ContextParts[last_call'.value])]_vars

\* A get has hit while the cache held the responses of two callers that
\* asked the same question
C35_Witness ==
    /\ last_call.op = "get"
    /\ last_call.hit
    /\ \E i, j \in 1..Len(cache) :
          /\ i # j
          /\ ~SameContext(ContextParts[cache[i].value], ContextParts[cache[j].value])
          /\ strip(lower(ContextParts[cache[i].value].question))
                = strip(lower(ContextParts[cache[j].value].question))

----------------------------------------------------------------------------
\* Claims about the identities of the rate limiter

\* What check_limit(user_id) would return if it were called now
WouldReturn(user_id) ==
    LET swept == global_cleanup(user_data, limiter_cleanup)
        key == limiter_key(user_id)
        found == IF key \in DOMAIN swept.user_data
                 THEN swept.user_data[key] ELSE NewUserRateData
        data == cleanup_old_requests(found, now)
        tier == first_violated(data, limits)
        kept == IF tier = "none" THEN record_request(data, now) ELSE data
    IN [allowed |-> tier = "none", limit_type |-> tier,
        remaining |-> IF tier = "none" THEN remaining(kept, limits) ELSE NoRemaining]

\* C36: a check_limit call made for one identity leaves unchanged what
\* check_limit would return for every other identity, None and the integers
\* alike.
C36_IndependentBudgets ==
    [][\A u \in SuppliedUserIds :
          check_limit(u) =>
              \A v \in SuppliedUserIds \ {u} : WouldReturn(v)' = WouldReturn(v)]_vars

----------------------------------------------------------------------------
\* Claims about the global cleanup

\* What check_limit(user_id) would return now if it did no global cleanup
ReturnWithoutCleanup(user_id) ==
    LET key == limiter_key(user_id)
        found == IF key \in DOMAIN user_data THEN user_data[key] ELSE NewUserRateData
        data == cleanup_old_requests(found, now)
        tier == first_violated(data, limits)
        kept == IF tier = "none" THEN record_request(data, now) ELSE data
    IN [allowed |-> tier = "none", limit_type |-> tier,
        retry_after |-> IF tier = "none" \/ index_error(data, tier) THEN 0
                        ELSE retry_after(data, tier, now),
        remaining |-> IF tier = "none" THEN remaining(kept, limits) ELSE NoRemaining]

\* The part of a result that check_limit returns
Returned(result) ==
    [allowed |-> result.allowed, limit_type |-> result.limit_type,
     retry_after |-> result.retry_after, remaining |-> result.remaining]

\* C37: a record that a step removes from user_data has no timestamp inside
\* the burst, minute or hour window, and every check_limit call returns what
\* it would return without the global cleanup.
C37_CleanupKeepsBudgets ==
    [][/\ \A k \in DOMAIN user_data \ DOMAIN user_data' :
            cleanup_old_requests(user_data[k], now) = NewUserRateData
       /\ \A u \in UserIds :
            check_limit(u) =>
                Returned(last_result'[limiter_key(u)]) = ReturnWithoutCleanup(u)]_vars

\* C37 witness: the cleanup has removed the record of an identity that had
\* made an allowed call, and kept the record of another one
C37_Witness ==
    /\ limiter_cleanup > 0
    /\ \E k \in LimiterKeys :
          /\ allowed_log[k] # <<>>
          /\ k \notin DOMAIN user_data
    /\ \E j \in DOMAIN user_data :
          /\ user_data[j].hour_requests # <<>>
          /\ user_data[j].hour_requests[1] < limiter_cleanup

----------------------------------------------------------------------------
\* Claims about the order of schema refreshes

\* The cache holds a text that was discovered
HoldsDiscovered(entry) ==
    entry # NoSchemaCache /\ entry.schema_info.kind \in {"sqlite", "databricks"}

\* C38: a refresh does not install an older result over a newer one: the
\* text a step puts in the cache was not discovered before the text it
\* replaces, so it does not describe an older schema of the database.
C38_NoOlderOverNewer ==
    [][(HoldsDiscovered(schema_cache) /\ HoldsDiscovered(schema_cache')) =>
          schema_cache'.schema_info.version >= schema_cache.schema_info.version]_vars

----------------------------------------------------------------------------
\* Claims about the connector of a schema text

\* C39: the text that a get_schema_info(connector) call returns from the
\* cache is a text discovered through a connector of the same database type
\* as the call's connector.
C39_CachedTextOfConnector ==
    [][\A t \in Threads, connector \in Connectors :
          (/\ get_schema_info_enter(t, connector, FALSE)
           /\ sd_pc' = sd_pc) =>
              schema_result'.text.kind = connector.db_type]_vars

----------------------------------------------------------------------------
\* Claims about the warm-up of the pool

\* Thread t is inside the warm-up loop of _ensure_initialized
InWarmUp(t) ==
    pc[t] = "ei_loop" \/ (pc[t] = "create_lock" /\ ret[t] = "init")

\* The connections the factory has made so far
Created == {c \in ConnIds : conns[c] # Unborn}

\* C40: the warm-up runs at most once: no connection exists before a first
\* get_connection call has begun the warm-up, at most one thread is inside
\* the warm-up loop, no thread is inside it once the pool is initialized,
\* and the connections made before the pool is initialized, which are the
\* warm-up's, are at most min_size.
C40_WarmUpOnce ==
    /\ Cardinality({t \in Threads : InWarmUp(t)}) <= 1
    /\ initialized => \A t \in Threads : ~InWarmUp(t)
    /\ ~initialized => Cardinality(Created) <= config.min_size
    /\ (~initialized /\ \A t \in Threads : ~InWarmUp(t)) => Created = {}

\* C40 witness: two threads made their first get_connection call together;
\* one is inside the warm-up and has made a connection, the other waits for
\* the lock of _ensure_initialized
C40_Witness ==
    \E t, u \in Threads :
        /\ t # u
        /\ pc[t] = "create_lock" /\ ret[t] = "init"
        /\ pc[u] = "ei_lock"
        /\ ~initialized
        /\ Created # {}

====
